---- MODULE Spec2Model ----
(***************************************************************************)
(* iFusionOne core: Extension Manager (per-id locks, global write lock,    *)
(* install / uninstall / enable / disable / loadExtension), Command        *)
(* Registry (pre/post middleware chains around a handler), Service         *)
(* Registry (factories, instance directory, start / stop), Tab Manager     *)
(* (tab list, active tab, views), Event Bus and BaseError (cause chains).  *)
(*                                                                         *)
(* Each component has its own specification (SpecExt, SpecCmd, SpecSvc,    *)
(* SpecSvcSeq, SpecTab) over its own variables; the other components'      *)
(* variables stay unchanged.                                               *)
(***************************************************************************)
EXTENDS Integers, Sequences, FiniteSets, TLC

\* ------------------------------------------------------------------------
\* Bounds
\* ------------------------------------------------------------------------

\* Number of Extension Manager operations that can be in flight at once.
MaxTasks == 2

\* Number of Extension Manager operations called in one run.
MaxCalls == 3

Tasks == 1..MaxTasks

\* The uniqueIds the operations are called with.
Ids == {"e1", "e2"}

\* The manifests of the sources install is called with: two sources of one
\* extension that differ in their version, and another extension.
Manifests ==
  {[developer |-> "Acme", name |-> "Tool", version |-> "1.0.0"],
   [developer |-> "Acme", name |-> "Tool", version |-> "1.1.0"],
   [developer |-> "Acme", name |-> "Kit", version |-> "1.0.0"]}

\* uuidv5(text, NAMESPACE): a fixed function of the text; the texts that
\* occur get different ids.
Uuidv5(text) == IF text = "Acme:Tool" THEN "e1" ELSE "e2"

\* validateManifestFile: uuidv5(`${manifest.developer}:${manifest.name}`, NAMESPACE).
UniqueId(manifest) == Uuidv5(manifest.developer \o ":" \o manifest.name)

NoTask == 0

\* ------------------------------------------------------------------------
\* Extension Manager state
\* ------------------------------------------------------------------------
VARIABLES
  extDir,          \* uniqueId -> "absent" | "partial" | "full": <extensionsPath>/<uniqueId>
  extensions,      \* uniqueId -> "none" | "enabled" | "disabled": the extensions table
  resourceLocks,   \* uniqueId -> [holder, queue]: the per-id Mutex
  dbWriteLock,     \* [holder, queue]: the global write Mutex
  task,            \* task -> [op, id, pc, res, row0, rollback]: one in-flight async call each
  calls,           \* number of operations called so far
  uninstalled,     \* uniqueIds whose row a successful uninstall has deleted
  db,              \* TRUE iff this.db holds an open connection (FALSE: null)
  dbInitPromise,   \* TRUE iff this.dbInitPromise holds a promise (FALSE: null)
  initializations, \* the initializations that are running, each at its stage:
                   \* "dir" | "open" | "schema"
  opens,           \* number of times open() has returned a connection
  schema           \* TRUE iff the extensions table has been created in the store

repoVars == <<db, dbInitPromise, initializations, opens, schema>>

extVars == <<extDir, extensions, resourceLocks, dbWriteLock, task, calls, uninstalled,
             repoVars>>

\* ------------------------------------------------------------------------
\* Command Registry state
\* ------------------------------------------------------------------------
VARIABLES
  commands,        \* set of registered command names (keys of the commands map)
  preMiddleware,   \* sequence of [kind, tag]: the pre-middleware list
  postMiddleware,  \* sequence of [kind, tag]: the post-middleware list
  command,         \* execute's parameter `command` ("none" when no execute runs)
  context,         \* [command, args, result, error]: the execution context;
                   \* args names the object it refers to: "args" | "replacement"
  cmdArgs,         \* content of the object execute was called with as `args`
  replacement,     \* content of the object a middleware has assigned to
                   \* context.args ("none" if none has)
  handlerArgs,     \* content of the value the handler was called with
  phase,           \* "idle" | "pre" | "handler" | "post" | "done": where execute is
  index,           \* runMiddleware's `index`
  stack,           \* positions of the middlewares that are awaiting their next()
  descending,      \* TRUE while next() is about to take the following middleware
  thrown,          \* the failure propagating out of the chain (<<>> if none),
                   \* outermost failure first, then its causes
  trace,           \* the middlewares and handler invoked by this execute, in order
  outcome,         \* how execute settled: [kind, value, error]
  commandExecuted  \* execute's `commandExecuted` flag

cmdVars == <<commands, preMiddleware, postMiddleware, command, context, cmdArgs,
             replacement, handlerArgs, phase, index, stack, descending, thrown, trace,
             outcome, commandExecuted>>

\* ------------------------------------------------------------------------
\* Service Registry state
\* ------------------------------------------------------------------------
VARIABLES
  factories,       \* set of names with a registered service class
  services,        \* name -> sequence of [key, inst]: the instance directory, each
                   \* inner Map in insertion order
  created,         \* number of instances constructed so far (instance ids 1..created)
  svcCall,         \* slot -> the in-flight registry call
  svcCalls,        \* number of registry calls made so far
  constructed,     \* name -> key -> instances constructed since the name's entry
                   \* was last deleted from the directory
  returned,        \* name -> key -> instances returned by start calls since then
  stopHooked,      \* instances whose stop() has been called
  startHooked,     \* the instances whose start() has been called, one entry per call
  startFailed      \* instances whose start() has failed

svcVars == <<factories, services, created, svcCall, svcCalls, constructed, returned,
             stopHooked, startHooked, startFailed>>

\* ------------------------------------------------------------------------
\* Tab Manager state
\* ------------------------------------------------------------------------
VARIABLES
  tabs,            \* sequence of [obj, id, ext, hasView]: the tab list; obj is the
                   \* identity of the Tab object and of the view it was created with
  activeTab,       \* obj of the active Tab (NoTab if null)
  attached,        \* views that are child views of the window
  visible,         \* views whose setVisible state is true
  viewsMade,       \* number of WebContentsViews constructed so far
  now,             \* the last reading of Date.now() that createNewTab took
  creating,        \* slot -> the createNewTab call awaiting the extension load
  lastTab          \* the last Tab Manager call that returned a value or threw,
                   \* and what it returned or threw

tabVars == <<tabs, activeTab, attached, visible, viewsMade, now, creating, lastTab>>

\* ------------------------------------------------------------------------
\* Event Bus state
\* ------------------------------------------------------------------------
VARIABLES
  events,             \* event -> sequence of handlers (<<>>: no entry or an empty list)
  busPreMiddleware,   \* sequence of [kind, tag]: EventBus.preMiddleware
  busPostMiddleware,  \* sequence of [kind, tag]: EventBus.postMiddleware
  emit,               \* [pc, event, i, data, res]: the emit call in flight
  busTrace            \* sequence of [at, fn, data]: what emit has invoked, with the
                      \* data each function received

busVars == <<events, busPreMiddleware, busPostMiddleware, emit, busTrace>>

\* ------------------------------------------------------------------------
\* BaseError state
\* ------------------------------------------------------------------------
VARIABLES
  errors,          \* sequence of [base, message, cause]: the Error objects made so
                   \* far; base: the object is a BaseError; cause: its `cause`
                   \* field, the position of another object (NoError: undefined)
  walk,            \* [fn, this, current, visited, result, messages]: the rendering
                   \* that is running, with the locals of its loop
  chain,           \* [this, result]: what getCauseMessageChain returned for `this`
  chainArray       \* [this, messages]: what getCauseMessageChainArray returned

errVars == <<errors, walk, chain, chainArray>>

\* Steps of one component leave the other components alone.
ExtOnly == UNCHANGED <<cmdVars, svcVars, tabVars, busVars, errVars>>

CmdOnly == UNCHANGED <<extVars, svcVars, tabVars, busVars, errVars>>

SvcOnly == UNCHANGED <<extVars, cmdVars, tabVars, busVars, errVars>>

TabOnly == UNCHANGED <<extVars, cmdVars, svcVars, busVars, errVars>>

BusOnly == UNCHANGED <<extVars, cmdVars, svcVars, tabVars, errVars>>

ErrOnly == UNCHANGED <<extVars, cmdVars, svcVars, tabVars, busVars>>

Ops == {"install", "uninstall", "enable", "disable", "load"}

\* Positions inside lock.runExclusive(...), i.e. between acquiring the per-id
\* lock and releasing it.
SectionPcs == {"ensure", "init", "ensured", "ensureFailed", "access", "mkdir", "cp", "rollback", "rm", "fetch",
               "entry", "loadFile", "dbwait", "tx"}

NoRes == [kind |-> "none", at |-> "none"]

Ok == [kind |-> "ok", at |-> "return"]

Failure(kind, at) == [kind |-> kind, at |-> at]

\* row0: the row of the call's uniqueId as the call found it on entering its section.
\* rollback: the outcome of the rollback the call attempted ("ok", "failed"),
\* "none" while it attempted none.
IdleTask == [op |-> "none", id |-> "none", pc |-> "idle", res |-> NoRes, row0 |-> "unread",
             rollback |-> "none"]

FreeLock == [holder |-> NoTask, queue |-> <<>>]

InitExt ==
  /\ extDir = [i \in Ids |-> "absent"]
  /\ extensions = [i \in Ids |-> "none"]
  /\ resourceLocks = [i \in Ids |-> FreeLock]
  /\ dbWriteLock = FreeLock
  /\ task = [t \in Tasks |-> IdleTask]
  /\ calls = 0
  /\ uninstalled = {}
  /\ db = FALSE
  /\ dbInitPromise = FALSE
  /\ initializations = <<>>
  /\ opens = 0
  /\ schema = FALSE

\* ------------------------------------------------------------------------
\* Mutex (async-mutex): runExclusive waits in FIFO order for the lock, runs
\* the callback and releases the lock when the callback settles.
\* ------------------------------------------------------------------------

\* A lock an earlier caller still holds is taken anyway.
IsFree_Always(lock) == TRUE

IsFree(lock) == lock.holder = NoTask

Acquire(lock, t) ==
  IF IsFree(lock)
    THEN [holder |-> t, queue |-> lock.queue]
    ELSE [holder |-> lock.holder, queue |-> Append(lock.queue, t)]

Release(lock) ==
  IF lock.queue = <<>>
    THEN FreeLock
    ELSE [holder |-> Head(lock.queue), queue |-> Tail(lock.queue)]

\* A released lock wakes no waiter.
NextHolder_None(lock) == NoTask

\* The task the lock is handed to when its holder releases it (NoTask if none waits).
NextHolder(lock) == IF lock.queue = <<>> THEN NoTask ELSE Head(lock.queue)

InSection(t) == task[t].pc \in SectionPcs

\* First position inside the per-id section: every operation starts with
\* ensureRepositoryReady().
SectionEntry == "ensure"

\* A call takes the first free slot (the slots are interchangeable).
FirstIdle(t) ==
  /\ task[t].pc = "idle"
  /\ \A u \in Tasks : u < t => task[u].pc # "idle"

\* A settled call's promise continuation (the caller observing the result) runs
\* before any further I/O completion is dispatched.
Settling == \E u \in Tasks : task[u].pc \in {"done", "ensured", "ensureFailed"}

\* lock.runExclusive(...) of getResourceLock(uniqueId): the caller enters the
\* section at once if the lock is free and waits in the queue otherwise.
Invoke(t, op, id) ==
  /\ ExtOnly
  /\ UNCHANGED repoVars
  /\ ~Settling
  /\ FirstIdle(t)
  /\ calls < MaxCalls
  /\ calls' = calls + 1
  /\ UNCHANGED uninstalled
  /\ resourceLocks' = [resourceLocks EXCEPT ![id] = Acquire(@, t)]
  /\ task' = [task EXCEPT ![t] =
                [op |-> op, id |-> id, res |-> NoRes, row0 |-> "unread", rollback |-> "none",
                 pc |-> IF IsFree(resourceLocks[id]) THEN SectionEntry ELSE "waiting"]]
  /\ UNCHANGED <<extDir, extensions, dbWriteLock>>

\* installExtension: validateManifestFile fails; loadExtension: the view is
\* invalid. Both fail before the per-id lock is requested.
InvalidInput(t, op, id) ==
  /\ ExtOnly
  /\ UNCHANGED repoVars
  /\ ~Settling
  /\ FirstIdle(t)
  /\ calls < MaxCalls
  /\ calls' = calls + 1
  /\ UNCHANGED uninstalled
  /\ op \in {"install", "load"}
  /\ task' = [task EXCEPT ![t] =
                [op |-> op, id |-> id, pc |-> "done", row0 |-> "unread", rollback |-> "none",
                 res |-> IF op = "install"
                           THEN Failure("SchemaValidationError", "validate")
                           ELSE Failure("InvalidArgumentError", "validate")]]
  /\ UNCHANGED <<extDir, extensions, resourceLocks, dbWriteLock>>

\* The callback of lock.runExclusive settles with result r, rb being the
\* outcome of the rollback it attempted: the per-id lock is released and
\* handed to the first waiter, which enters its section.
Finish(t, r, rb) ==
  LET id == task[t].id
      nxt == NextHolder(resourceLocks[id])
  IN /\ resourceLocks' = [resourceLocks EXCEPT ![id] = Release(@)]
     /\ task' = [u \in Tasks |->
                   IF u = t THEN [task[t] EXCEPT !.pc = "done", !.res = r, !.rollback = rb]
                   ELSE IF u = nxt THEN [task[u] EXCEPT !.pc = SectionEntry]
                   ELSE task[u]]

\* The callback of performDatabaseWrite settles and with it the per-id section:
\* the global write lock and then the per-id lock are released.
FinishWrite(t, r, rb) ==
  LET id == task[t].id
      nxt == NextHolder(resourceLocks[id])
      wnxt == NextHolder(dbWriteLock)
  IN /\ dbWriteLock' = Release(dbWriteLock)
     /\ resourceLocks' = [resourceLocks EXCEPT ![id] = Release(@)]
     /\ task' = [u \in Tasks |->
                   IF u = t THEN [task[t] EXCEPT !.pc = "done", !.res = r, !.rollback = rb]
                   ELSE IF u = wnxt THEN [task[u] EXCEPT !.pc = "tx"]
                   ELSE IF u = nxt THEN [task[u] EXCEPT !.pc = SectionEntry]
                   ELSE task[u]]

\* The operation starts its transaction without waiting for the write lock.
RequestWrite_NoWait(t) ==
  /\ dbWriteLock' = Acquire(dbWriteLock, t)
  /\ task' = [task EXCEPT ![t].pc = "tx"]

\* performDatabaseWrite: dbWriteLock.runExclusive(operation), called inside
\* the per-id section.
RequestWrite(t) ==
  /\ dbWriteLock' = Acquire(dbWriteLock, t)
  /\ task' = [task EXCEPT ![t].pc = IF IsFree(dbWriteLock) THEN "tx" ELSE "dbwait"]

\* The caller has observed the result; the slot is free for another call.
Return(t) ==
  /\ ExtOnly
  /\ UNCHANGED repoVars
  /\ UNCHANGED <<calls, uninstalled>>
  /\ task[t].pc = "done"
  /\ task' = [task EXCEPT ![t] = IdleTask]
  /\ UNCHANGED <<extDir, extensions, resourceLocks, dbWriteLock>>

Row(t) == extensions[task[t].id]

Dir(t) == extDir[task[t].id]

\* The operation goes on after `await this.ensureRepositoryReady()`.
AfterEnsure(t) ==
  \/ /\ task[t].op = "install"
     /\ task' = [task EXCEPT ![t].pc = "access", ![t].row0 = Row(t)]
     /\ UNCHANGED <<resourceLocks, dbWriteLock>>
  \/ /\ task[t].op = "uninstall"
     /\ task' = [task EXCEPT ![t].pc = "rm", ![t].row0 = Row(t)]
     /\ UNCHANGED <<resourceLocks, dbWriteLock>>
  \/ /\ task[t].op = "load"
     /\ task' = [task EXCEPT ![t].pc = "fetch", ![t].row0 = Row(t)]
     /\ UNCHANGED <<resourceLocks, dbWriteLock>>
  \/ /\ task[t].op \in {"enable", "disable"}
     /\ dbWriteLock' = Acquire(dbWriteLock, t)
     /\ task' = [task EXCEPT ![t].pc = IF IsFree(dbWriteLock) THEN "tx" ELSE "dbwait",
                             ![t].row0 = Row(t)]
     /\ UNCHANGED resourceLocks

\* No caller ever finds an initialization in flight.
InFlight_Never == FALSE

\* `if (this.dbInitPromise)`: an initialization is in flight.
InFlight == dbInitPromise

\* ensureRepositoryReady() at the head of every section, up to its await: it
\* returns at once if the store is open, awaits the initialization in flight
\* if there is one, and starts the initialization and awaits it otherwise.
EnsureRepositoryReady(t) ==
  /\ ExtOnly
  /\ ~Settling
  /\ UNCHANGED <<calls, uninstalled, db, opens, schema>>
  /\ task[t].pc = "ensure"
  /\ IF db
       THEN /\ AfterEnsure(t)
            /\ UNCHANGED <<dbInitPromise, initializations>>
       ELSE /\ IF InFlight
                 THEN UNCHANGED <<dbInitPromise, initializations>>
                 ELSE /\ dbInitPromise' = TRUE
                      /\ initializations' = Append(initializations, "dir")
            /\ task' = [task EXCEPT ![t].pc = "init"]
            /\ UNCHANGED <<resourceLocks, dbWriteLock>>
  /\ UNCHANGED <<extDir, extensions>>

\* The initialization at position k settles: `finally` resets dbInitPromise
\* and every caller awaiting the promise is resumed with its outcome.
InitSettled(k, ok) ==
  /\ initializations' = [j \in 1..(Len(initializations) - 1) |->
                           IF j < k THEN initializations[j] ELSE initializations[j + 1]]
  /\ dbInitPromise' = FALSE
  /\ task' = [u \in Tasks |->
                IF task[u].pc = "init"
                  THEN [task[u] EXCEPT !.pc = IF ok THEN "ensured" ELSE "ensureFailed"]
                  ELSE task[u]]

\* One await of the initialization completes: ensureDirectoryExists, then
\* open() assigned to this.db, then db.exec of the schema (CREATE TABLE IF NOT
\* EXISTS extensions). A failure of any of the three rejects the promise;
\* this.db keeps what open() gave it.
InitStep(k) ==
  /\ ExtOnly
  /\ ~Settling
  /\ UNCHANGED <<calls, uninstalled>>
  /\ k \in 1..Len(initializations)
  /\ \/ /\ initializations[k] = "dir"
        /\ initializations' = [initializations EXCEPT ![k] = "open"]
        /\ UNCHANGED <<db, opens, schema, dbInitPromise, task>>
     \/ /\ initializations[k] = "open"
        /\ initializations' = [initializations EXCEPT ![k] = "schema"]
        /\ db' = TRUE
        /\ opens' = opens + 1
        /\ UNCHANGED <<schema, dbInitPromise, task>>
     \/ /\ initializations[k] = "schema"
        /\ schema' = TRUE
        /\ InitSettled(k, TRUE)
        /\ UNCHANGED <<db, opens>>
     \/ /\ InitSettled(k, FALSE)
        /\ UNCHANGED <<db, opens, schema>>
  /\ UNCHANGED <<extDir, extensions, resourceLocks, dbWriteLock>>

\* A caller resumes after `await this.dbInitPromise`: it goes on with its
\* operation, or fails with the error the initialization was rejected with.
EnsureSettled(t) ==
  /\ ExtOnly
  /\ UNCHANGED <<calls, uninstalled, repoVars>>
  /\ \/ /\ task[t].pc = "ensured"
        /\ AfterEnsure(t)
     \/ /\ task[t].pc = "ensureFailed"
        /\ Finish(t, Failure("RepositoryError", "ensure"), "none")
        /\ UNCHANGED dbWriteLock
  /\ UNCHANGED <<extDir, extensions>>

\* fs.access never finds the destination.
DestinationExists_Never(t) == FALSE

\* fs.access(destinationPath) resolves: the destination directory is there.
DestinationExists(t) == Dir(t) # "absent"

\* installExtension: fs.access(destinationPath). An existing directory is the
\* "already installed" signal; ENOENT falls through to mkdir; any other error
\* code is a filesystem failure.
InstallAccess(t) ==
  /\ ExtOnly
  /\ UNCHANGED repoVars
  /\ ~Settling
  /\ UNCHANGED <<calls, uninstalled>>
  /\ task[t].pc = "access"
  /\ \/ /\ DestinationExists(t)
        /\ Finish(t, Failure("ExtensionError", "installed"), "none")
     \/ /\ ~DestinationExists(t)
        /\ task' = [task EXCEPT ![t].pc = "mkdir"]
        /\ UNCHANGED resourceLocks
     \/ Finish(t, Failure("FileSystemError", "access"), "none")
  /\ UNCHANGED <<extDir, extensions, dbWriteLock>>

\* installExtension: fs.mkdir(destinationPath, {recursive: true}).
InstallMkdir(t) ==
  /\ ExtOnly
  /\ UNCHANGED repoVars
  /\ ~Settling
  /\ UNCHANGED <<calls, uninstalled>>
  /\ task[t].pc = "mkdir"
  /\ \/ /\ extDir' = [extDir EXCEPT ![task[t].id] = IF @ = "absent" THEN "partial" ELSE @]
        /\ task' = [task EXCEPT ![t].pc = "cp"]
        /\ UNCHANGED resourceLocks
     \/ /\ Finish(t, Failure("FileSystemError", "mkdir"), "none")
        /\ UNCHANGED extDir
  /\ UNCHANGED <<extensions, dbWriteLock>>

\* The catch block reports the primary failure whatever the rollback did.
Rollback_Ordinary(rb, critical, ordinary) == ordinary

\* The catch block around a failed step: the rollback is attempted; its own
\* failure is reported as the critical failure, otherwise the primary failure
\* is reported.
Rollback(rb, critical, ordinary) ==
  IF rb = "failed" THEN critical ELSE ordinary

\* installExtension: fs.cp(sourcePath, destinationPath). On success the insert
\* transaction is requested; on failure the catch block runs the rollback.
InstallCopy(t) ==
  /\ ExtOnly
  /\ UNCHANGED repoVars
  /\ ~Settling
  /\ UNCHANGED <<calls, uninstalled>>
  /\ task[t].pc = "cp"
  /\ \/ /\ extDir' = [extDir EXCEPT ![task[t].id] = "full"]
        /\ RequestWrite(t)
     \/ /\ task' = [task EXCEPT ![t].pc = "rollback"]
        /\ UNCHANGED <<extDir, dbWriteLock>>
  /\ UNCHANGED <<extensions, resourceLocks>>

\* The catch of the failed copy reports the filesystem failure without removing
\* the partly copied destination.
InstallRollback_NoRemove(t) ==
  /\ ExtOnly
  /\ UNCHANGED repoVars
  /\ ~Settling
  /\ UNCHANGED <<calls, uninstalled>>
  /\ task[t].pc = "rollback"
  /\ Finish(t, Failure("FileSystemError", "copy"), "none")
  /\ UNCHANGED <<extDir, extensions, dbWriteLock>>

\* installExtension, catch of the failed copy: fs.rm(destinationPath) as the
\* rollback; its own failure is the critical filesystem failure.
InstallRollback(t) ==
  /\ ExtOnly
  /\ UNCHANGED repoVars
  /\ ~Settling
  /\ UNCHANGED <<calls, uninstalled>>
  /\ task[t].pc = "rollback"
  /\ \E rb \in {"ok", "failed"} :
       /\ extDir' = [extDir EXCEPT ![task[t].id] = IF rb = "ok" THEN "absent" ELSE @]
       /\ Finish(t, Rollback(rb, Failure("CriticalFileSystemError", "rollback"),
                            Failure("FileSystemError", "copy")), rb)
  /\ UNCHANGED <<extensions, dbWriteLock>>

\* A failed transaction: BEGIN itself fails (the raw store failure propagates,
\* no rollback is attempted), or a statement fails and ROLLBACK succeeds
\* (database failure) or fails (critical database failure). Neither the row
\* nor the directory is changed.
FailedWrite(t, at) ==
  /\ \/ FinishWrite(t, Failure("Error", "begin"), "none")
     \/ \E rb \in {"ok", "failed"} :
          FinishWrite(t, Rollback(rb, Failure("CriticalDatabaseError", at),
                                  Failure("DatabaseError", at)), rb)
  /\ UNCHANGED <<extDir, extensions>>

\* installExtension: the INSERT transaction under the global write lock.
\* uniqueId is the primary key: the INSERT succeeds only if no row exists
\* (and the table does).
InstallInsert(t) ==
  /\ ExtOnly
  /\ UNCHANGED repoVars
  /\ ~Settling
  /\ UNCHANGED <<calls, uninstalled>>
  /\ task[t].pc = "tx"
  /\ task[t].op = "install"
  /\ \/ /\ Row(t) = "none"
        /\ schema
        /\ extensions' = [extensions EXCEPT ![task[t].id] = "enabled"]
        /\ FinishWrite(t, Ok, "none")
        /\ UNCHANGED extDir
     \/ FailedWrite(t, "insert")

\* The removal reports success and leaves the tree where it is.
UninstallRemove_KeepsTree(t) ==
  /\ ExtOnly
  /\ UNCHANGED repoVars
  /\ ~Settling
  /\ UNCHANGED <<calls, uninstalled>>
  /\ task[t].pc = "rm"
  /\ RequestWrite(t)
  /\ UNCHANGED <<extDir, extensions, resourceLocks>>

\* A failed removal is ignored: the delete transaction is requested whether
\* or not the tree is gone.
UninstallRemove_DeletesAnyway(t) ==
  /\ ExtOnly
  /\ UNCHANGED repoVars
  /\ ~Settling
  /\ UNCHANGED <<calls, uninstalled>>
  /\ task[t].pc = "rm"
  /\ \E d \in {"absent", Dir(t)} : extDir' = [extDir EXCEPT ![task[t].id] = d]
  /\ RequestWrite(t)
  /\ UNCHANGED <<extensions, resourceLocks>>

\* uninstallExtension: fs.rm(extPath, {recursive: true, force: true}); a
\* failure leaves the tree as it was or partly removed.
UninstallRemove(t) ==
  /\ ExtOnly
  /\ UNCHANGED repoVars
  /\ ~Settling
  /\ UNCHANGED <<calls, uninstalled>>
  /\ task[t].pc = "rm"
  /\ \/ /\ extDir' = [extDir EXCEPT ![task[t].id] = "absent"]
        /\ RequestWrite(t)
        /\ UNCHANGED resourceLocks
     \/ /\ \E d \in {Dir(t), IF Dir(t) = "absent" THEN "absent" ELSE "partial"} :
             extDir' = [extDir EXCEPT ![task[t].id] = d]
        /\ Finish(t, Failure("FileSystemError", "rm"), "none")
        /\ UNCHANGED dbWriteLock
  /\ UNCHANGED extensions

\* The DELETE transaction treats zero deleted rows as "extension not found",
\* the way enableExtension and disableExtension treat zero updated rows.
UninstallDelete_NotFound(t) ==
  /\ ExtOnly
  /\ UNCHANGED repoVars
  /\ ~Settling
  /\ UNCHANGED <<calls, uninstalled>>
  /\ task[t].pc = "tx"
  /\ task[t].op = "uninstall"
  /\ \/ /\ Row(t) # "none"
        /\ extensions' = [extensions EXCEPT ![task[t].id] = "none"]
        /\ FinishWrite(t, Ok, "none")
        /\ UNCHANGED extDir
     \/ /\ Row(t) = "none"
        /\ schema
        /\ FinishWrite(t, Failure("ExtensionError", "notfound"), "ok")
        /\ UNCHANGED <<extDir, extensions>>
     \/ FailedWrite(t, "delete")

\* uninstallExtension: the DELETE transaction under the global write lock.
UninstallDelete(t) ==
  /\ ExtOnly
  /\ UNCHANGED repoVars
  /\ ~Settling
  /\ UNCHANGED calls
  /\ task[t].pc = "tx"
  /\ task[t].op = "uninstall"
  /\ \/ /\ schema
        /\ extensions' = [extensions EXCEPT ![task[t].id] = "none"]
        /\ uninstalled' = IF Row(t) # "none" THEN uninstalled \cup {task[t].id}
                                              ELSE uninstalled
        /\ FinishWrite(t, Ok, "none")
        /\ UNCHANGED extDir
     \/ /\ FailedWrite(t, "delete")
        /\ UNCHANGED uninstalled

\* enableExtension / disableExtension: the UPDATE transaction; zero changed
\* rows is "extension not found" (after a ROLLBACK, which may fail).
SetEnabled(t) ==
  /\ ExtOnly
  /\ UNCHANGED repoVars
  /\ ~Settling
  /\ UNCHANGED <<calls, uninstalled>>
  /\ task[t].pc = "tx"
  /\ task[t].op \in {"enable", "disable"}
  /\ \/ /\ Row(t) # "none"
        /\ extensions' = [extensions EXCEPT ![task[t].id] =
                            IF task[t].op = "enable" THEN "enabled" ELSE "disabled"]
        /\ FinishWrite(t, Ok, "none")
        /\ UNCHANGED extDir
     \/ /\ Row(t) = "none"
        /\ schema
        /\ \E rb \in {"ok", "failed"} :
             FinishWrite(t, Rollback(rb, Failure("CriticalDatabaseError", "update"),
                                     Failure("ExtensionError", "notfound")), rb)
        /\ UNCHANGED <<extDir, extensions>>
     \/ FailedWrite(t, "update")

\* loadExtension: extension.isEnabled === 0.
Disabled_Never(row) == FALSE

Disabled(row) == row = "disabled"

\* loadExtension: SELECT the row; absent -> not found, isEnabled = 0 ->
\* disabled, any other failure -> database failure.
LoadFetch(t) ==
  /\ ExtOnly
  /\ UNCHANGED repoVars
  /\ ~Settling
  /\ UNCHANGED <<calls, uninstalled>>
  /\ task[t].pc = "fetch"
  /\ \/ /\ Row(t) = "none"
        /\ schema
        /\ Finish(t, Failure("ExtensionError", "notfound"), "none")
     \/ /\ Row(t) # "none"
        /\ Disabled(Row(t))
        /\ Finish(t, Failure("ExtensionError", "disabled"), "none")
     \/ /\ Row(t) # "none"
        /\ ~Disabled(Row(t))
        /\ task' = [task EXCEPT ![t].pc = "entry"]
        /\ UNCHANGED resourceLocks
     \/ Finish(t, Failure("DatabaseError", "select"), "none")
  /\ UNCHANGED <<extDir, extensions, dbWriteLock>>

\* loadExtension: fs.access(entryFilePath). The entry file is there in a full
\* tree, may be there in a partial one and is missing without the directory.
LoadAccess(t) ==
  /\ ExtOnly
  /\ UNCHANGED repoVars
  /\ ~Settling
  /\ UNCHANGED <<calls, uninstalled>>
  /\ task[t].pc = "entry"
  /\ \/ /\ Dir(t) \in {"full", "partial"}
        /\ task' = [task EXCEPT ![t].pc = "loadFile"]
        /\ UNCHANGED resourceLocks
     \/ /\ Dir(t) \in {"absent", "partial"}
        /\ Finish(t, Failure("FileSystemError", "entry"), "none")
  /\ UNCHANGED <<extDir, extensions, dbWriteLock>>

\* loadExtension: view.webContents.loadFile(entryFilePath).
LoadFile(t) ==
  /\ ExtOnly
  /\ UNCHANGED repoVars
  /\ ~Settling
  /\ UNCHANGED <<calls, uninstalled>>
  /\ task[t].pc = "loadFile"
  /\ \E r \in {Ok, Failure("ExtensionError", "loadFile")} : Finish(t, r, "none")
  /\ UNCHANGED <<extDir, extensions, dbWriteLock>>

\* The steps inside the operations (everything but a caller making a call).
StepsExt ==
  \E t \in Tasks :
    \/ EnsureRepositoryReady(t) \/ EnsureSettled(t)
    \/ \E k \in 1..Len(initializations) : InitStep(k)
    \/ InstallAccess(t) \/ InstallMkdir(t) \/ InstallCopy(t)
    \/ InstallRollback(t) \/ InstallInsert(t)
    \/ UninstallRemove(t) \/ UninstallDelete(t)
    \/ SetEnabled(t)
    \/ LoadFetch(t) \/ LoadAccess(t) \/ LoadFile(t)
    \/ Return(t)

NextExt ==
  \/ \E t \in Tasks, manifest \in Manifests : Invoke(t, "install", UniqueId(manifest))
  \/ \E t \in Tasks, op \in Ops \ {"install"}, id \in Ids : Invoke(t, op, id)
  \/ \E t \in Tasks, op \in Ops, id \in Ids : InvalidInput(t, op, id)
  \/ \E t \in Tasks : EnsureRepositoryReady(t)
  \/ \E k \in 1..Len(initializations) : InitStep(k)
  \/ \E t \in Tasks : EnsureSettled(t)
  \/ \E t \in Tasks : InstallAccess(t)
  \/ \E t \in Tasks : InstallMkdir(t)
  \/ \E t \in Tasks : InstallCopy(t)
  \/ \E t \in Tasks : InstallRollback(t)
  \/ \E t \in Tasks : InstallInsert(t)
  \/ \E t \in Tasks : UninstallRemove(t)
  \/ \E t \in Tasks : UninstallDelete(t)
  \/ \E t \in Tasks : SetEnabled(t)
  \/ \E t \in Tasks : LoadFetch(t)
  \/ \E t \in Tasks : LoadAccess(t)
  \/ \E t \in Tasks : LoadFile(t)
  \/ \E t \in Tasks : Return(t)

\* ------------------------------------------------------------------------
\* Command Registry
\* ------------------------------------------------------------------------

\* Most middlewares that usePre and usePost register in one run, together.
MaxMw == 4

\* Valid command names execute and register are called with.
Cmds == {"x", "y"}

\* What a registered middleware does when invoked.  Every kind that calls
\* next awaits it and lets a failure of next() propagate; a failure a
\* middleware raises itself is one outside the error taxonomy.
\*   pass            await next()
\*   skip            returns without calling next()
\*   throwBefore     throws before calling next()
\*   throwAfter      await next(), then throws
\*   rename          context.command = <the other name>; await next()
\*   setResultThrow  context.result = <its own value>, then throws
\*   mutateArgs      sets a property of context.args; await next()
\*   replaceArgs     context.args = <a new object>; await next()
PreKinds == {"pass", "skip", "throwBefore", "throwAfter", "rename", "mutateArgs",
             "replaceArgs"}

PostKinds == {"pass", "throwBefore", "setResultThrow"}

CallsNext(kind) == kind \in {"pass", "throwAfter", "rename", "mutateArgs", "replaceArgs"}

\* What the handler of a command does when invoked: it returns, throws a
\* failure outside the error taxonomy, or throws a MiddlewareError (as a
\* handler that executes another command and lets its failure through does).
HandlerOutcomes == {"returns", "throws", "throwsMiddlewareError"}

Other(c) == IF c = "x" THEN "y" ELSE "x"

NoOutcome == [kind |-> "none", value |-> "undefined", error |-> <<>>]

Returned(v) == [kind |-> "returned", value |-> v, error |-> <<>>]

Raised(e) == [kind |-> "raised", value |-> "undefined", error |-> e]

NoContext == [command |-> "none", args |-> "args", result |-> "undefined", error |-> <<>>]

InitCmd ==
  /\ commands = {}
  /\ preMiddleware = <<>>
  /\ postMiddleware = <<>>
  /\ command = "none"
  /\ context = NoContext
  /\ cmdArgs = "none"
  /\ replacement = "none"
  /\ handlerArgs = "none"
  /\ phase = "idle"
  /\ index = 0
  /\ stack = <<>>
  /\ descending = FALSE
  /\ thrown = <<>>
  /\ trace = <<>>
  /\ outcome = NoOutcome
  /\ commandExecuted = FALSE

execVars == <<command, context, cmdArgs, replacement, handlerArgs, phase, index, stack,
              descending, thrown, trace, outcome, commandExecuted>>

\* usePre: this.preMiddleware.push(middleware).  The tag is the middleware's
\* registration number within its list.
UsePre(kind) ==
  /\ phase = "idle"
  /\ Len(preMiddleware) + Len(postMiddleware) < MaxMw
  /\ preMiddleware' = Append(preMiddleware, [kind |-> kind, tag |-> Len(preMiddleware) + 1])
  /\ UNCHANGED <<commands, postMiddleware, execVars>>
  /\ CmdOnly

\* usePost: this.postMiddleware.push(middleware).
UsePost(kind) ==
  /\ phase = "idle"
  /\ Len(preMiddleware) + Len(postMiddleware) < MaxMw
  /\ postMiddleware' = Append(postMiddleware, [kind |-> kind, tag |-> Len(postMiddleware) + 1])
  /\ UNCHANGED <<commands, preMiddleware, execVars>>
  /\ CmdOnly

\* register of a valid name that is not registered yet.
Register(c) ==
  /\ phase = "idle"
  /\ c \notin commands
  /\ commands' = commands \cup {c}
  /\ UNCHANGED <<preMiddleware, postMiddleware, execVars>>
  /\ CmdOnly

\* "Middleware Error." wrapping of a failure caught in runMiddleware's next.
Wrap(e) == <<"MiddlewareError: Middleware Error.">> \o e

ChainInterrupted == <<"MiddlewareError: Middleware chain interrupted. 'next()' was not called.">>

CannotModify == <<"MiddlewareError: Middleware cannot modify the command name.">>

MiddlewareThrew == <<"Error: thrown by a middleware">>

HandlerThrew == <<"Error: thrown by the handler">>

HandlerThrewMiddlewareError == <<"MiddlewareError: thrown by the handler">>

NotRegistered == <<"CommandError: No handler registered for command">>

\* error instanceof MiddlewareError
IsMiddlewareError(e) ==
  Head(e) \in {Head(Wrap(<<>>)), Head(ChainInterrupted), Head(CannotModify),
               Head(HandlerThrewMiddlewareError)}

\* The failure execute's catch block throws for a caught failure e.
Rethrown(e) ==
  IF IsMiddlewareError(e)
    THEN e
    ELSE <<"ExecutionError: Failed to execute the command">> \o e

\* The phase that follows the handler: `if (commandExecuted)` runs the
\* post-middlewares, otherwise execute has settled.
PostPhaseAfter_Always(executed) == "post"

PostPhaseAfter(executed) == IF executed THEN "post" ELSE "done"

\* The list the running chain walks.
Chain == IF phase = "post" THEN postMiddleware ELSE preMiddleware

\* Position (1-based) of the middleware `middlewares[index++]` takes.
CurrentMiddleware_FromEnd(middlewares, i) == Len(middlewares) - i

CurrentMiddleware(middlewares, i) == i + 1

\* `if (!nextCalled)` after the middleware has returned.
Interrupted_Never(nextCalled) == FALSE

Interrupted(nextCalled) == ~nextCalled

\* execute up to the first call of runMiddleware.
Execute(c) ==
  /\ phase = "idle"
  /\ command' = c
  /\ IF c \in commands
       THEN /\ context' = [command |-> c, args |-> "args", result |-> "undefined",
                            error |-> <<>>]
            /\ cmdArgs' = "original"
            /\ phase' = "pre"
            /\ descending' = TRUE
            /\ outcome' = NoOutcome
       ELSE /\ outcome' = Raised(NotRegistered)
            /\ phase' = "done"
            /\ UNCHANGED <<context, descending, cmdArgs>>
  /\ index' = 0
  /\ UNCHANGED <<stack, thrown, trace, commandExecuted, replacement, handlerArgs>>
  /\ UNCHANGED <<commands, preMiddleware, postMiddleware>>
  /\ CmdOnly

\* next() with a middleware left: takes it and runs it up to its call of
\* next(), its return or its throw; a throw (and a missing next()) is caught
\* in next's catch block.
MwCall ==
  /\ phase \in {"pre", "post"}
  /\ descending
  /\ index < Len(Chain)
  /\ LET pos == CurrentMiddleware(Chain, index)
         mw  == Chain[pos]
         e   == IF mw.kind = "skip" THEN ChainInterrupted ELSE MiddlewareThrew
     IN /\ index' = index + 1
        /\ trace' = Append(trace, [at |-> phase, tag |-> mw.tag, kind |-> mw.kind])
        /\ IF CallsNext(mw.kind)
             THEN /\ stack' = Append(stack, pos)
                  /\ context' = IF mw.kind = "rename"
                                  THEN [context EXCEPT !.command = Other(@)]
                                ELSE IF mw.kind = "replaceArgs"
                                  THEN [context EXCEPT !.args = "replacement"]
                                  ELSE context
                  /\ cmdArgs' = IF mw.kind = "mutateArgs" /\ context.args = "args"
                                  THEN "mutated" ELSE cmdArgs
                  /\ replacement' = IF mw.kind = "replaceArgs" THEN "replaced"
                                    ELSE IF mw.kind = "mutateArgs" /\ context.args = "replacement"
                                      THEN "mutated"
                                    ELSE replacement
                  /\ UNCHANGED <<descending, thrown>>
             ELSE IF mw.kind = "skip" /\ ~Interrupted(FALSE)
               THEN /\ descending' = FALSE
                    /\ UNCHANGED <<stack, context, thrown, cmdArgs, replacement>>
               ELSE /\ descending' = FALSE
                    /\ thrown' = Wrap(e)
                    /\ context' = [context EXCEPT
                                     !.error = e,
                                     !.result = IF mw.kind = "setResultThrow"
                                                  THEN "set by post-middleware"
                                                  ELSE @]
                    /\ UNCHANGED <<stack, cmdArgs, replacement>>
  /\ UNCHANGED <<command, phase, outcome, commandExecuted, handlerArgs>>
  /\ UNCHANGED <<commands, preMiddleware, postMiddleware>>
  /\ CmdOnly

\* next() with no middleware left (index = middlewares.length) does nothing.
MwBottom ==
  /\ phase \in {"pre", "post"}
  /\ descending
  /\ index = Len(Chain)
  /\ descending' = FALSE
  /\ UNCHANGED <<command, context, phase, index, stack, thrown, trace, outcome,
                 commandExecuted, cmdArgs, replacement, handlerArgs>>
  /\ UNCHANGED <<commands, preMiddleware, postMiddleware>>
  /\ CmdOnly

\* The next() a middleware awaited has settled: the middleware runs to its
\* end (or lets the failure of next() through), and next's try / catch
\* around it checks nextCalled and wraps what was thrown.
MwReturn ==
  /\ phase \in {"pre", "post"}
  /\ ~descending
  /\ stack # <<>>
  /\ LET pos == stack[Len(stack)]
         mw  == Chain[pos]
         e   == IF thrown # <<>> THEN thrown
                ELSE IF mw.kind = "throwAfter" THEN MiddlewareThrew
                ELSE IF Interrupted(TRUE) THEN ChainInterrupted
                ELSE <<>>
     IN /\ stack' = SubSeq(stack, 1, Len(stack) - 1)
        /\ IF e # <<>>
             THEN /\ thrown' = Wrap(e)
                  /\ context' = [context EXCEPT !.error = e]
             ELSE UNCHANGED <<thrown, context>>
  /\ UNCHANGED <<command, phase, index, descending, trace, outcome, commandExecuted>>
  /\ UNCHANGED <<cmdArgs, replacement, handlerArgs>>
  /\ UNCHANGED <<commands, preMiddleware, postMiddleware>>
  /\ CmdOnly

\* execute's catch block: context.error = error, then the failure is thrown
\* to the caller (a MiddlewareError as it is, anything else wrapped in an
\* ExecutionError).
Fail(e) ==
  /\ context' = [context EXCEPT !.error = e]
  /\ outcome' = Raised(Rethrown(e))
  /\ phase' = PostPhaseAfter(FALSE)
  /\ descending' = (PostPhaseAfter(FALSE) = "post")
  /\ index' = 0
  /\ thrown' = <<>>

\* runMiddleware(preMiddleware) has settled; the command name is compared.
PreDone ==
  /\ phase = "pre"
  /\ ~descending
  /\ stack = <<>>
  /\ LET e == IF thrown # <<>> THEN thrown
              ELSE IF context.command # command THEN CannotModify
              ELSE <<>>
     IN IF e = <<>>
          THEN /\ phase' = "handler"
               /\ UNCHANGED <<context, outcome, descending, index, thrown>>
          ELSE Fail(e)
  /\ UNCHANGED <<command, stack, trace, commandExecuted, cmdArgs, replacement, handlerArgs>>
  /\ UNCHANGED <<commands, preMiddleware, postMiddleware>>
  /\ CmdOnly

\* context.result = await commandHandler(args); commandExecuted = true.
HandlerRun(h) ==
  /\ phase = "handler"
  /\ handlerArgs' = cmdArgs
  /\ trace' = Append(trace, [at |-> "handler", tag |-> 0, kind |-> h])
  /\ IF h = "returns"
       THEN /\ context' = [context EXCEPT !.result = "returned by the handler"]
            /\ commandExecuted' = TRUE
            /\ phase' = PostPhaseAfter(TRUE)
            /\ descending' = TRUE
            /\ index' = 0
            /\ UNCHANGED <<outcome, thrown>>
       ELSE /\ Fail(IF h = "throws" THEN HandlerThrew ELSE HandlerThrewMiddlewareError)
            /\ UNCHANGED commandExecuted
  /\ UNCHANGED <<command, stack, cmdArgs, replacement>>
  /\ UNCHANGED <<commands, preMiddleware, postMiddleware>>
  /\ CmdOnly

\* runMiddleware(postMiddleware) has settled; its failure is logged only, and
\* execute returns context.result.
PostDone ==
  /\ phase = "post"
  /\ ~descending
  /\ stack = <<>>
  /\ outcome' = IF outcome.kind = "none" THEN Returned(context.result) ELSE outcome
  /\ thrown' = <<>>
  /\ phase' = "done"
  /\ UNCHANGED <<command, context, index, stack, descending, trace, commandExecuted>>
  /\ UNCHANGED <<cmdArgs, replacement, handlerArgs>>
  /\ UNCHANGED <<commands, preMiddleware, postMiddleware>>
  /\ CmdOnly

\* The caller has received execute's result; the next execute starts afresh.
ExecuteSettled ==
  /\ phase = "done"
  /\ command' = "none"
  /\ context' = NoContext
  /\ cmdArgs' = "none"
  /\ replacement' = "none"
  /\ handlerArgs' = "none"
  /\ phase' = "idle"
  /\ index' = 0
  /\ stack' = <<>>
  /\ descending' = FALSE
  /\ thrown' = <<>>
  /\ trace' = <<>>
  /\ outcome' = NoOutcome
  /\ commandExecuted' = FALSE
  /\ UNCHANGED <<commands, preMiddleware, postMiddleware>>
  /\ CmdOnly

NextCmd ==
  \/ \E kind \in PreKinds : UsePre(kind)
  \/ \E kind \in PostKinds : UsePost(kind)
  \/ \E c \in Cmds : Register(c)
  \/ \E c \in Cmds : Execute(c)
  \/ MwCall
  \/ MwBottom
  \/ MwReturn
  \/ PreDone
  \/ \E h \in HandlerOutcomes : HandlerRun(h)
  \/ PostDone
  \/ ExecuteSettled

\* ------------------------------------------------------------------------
\* Service Registry
\* ------------------------------------------------------------------------

\* Number of Service Registry calls that can be in flight at once.
MaxSvcTasks == 2

\* Number of Service Registry calls made in one run.
MaxSvcCalls == 3

SvcTasks == 1..MaxSvcTasks

\* Valid service names the registry is called with.
SvcNames == {"s1", "s2"}

\* Names validateServiceName rejects.
InvalidNames == {"my service"}

\* validateServiceName: the rule a name breaks ("none" for a valid name).
ValidationFailure(name) ==
  CASE name = "my service" -> "Service name contains invalid characters."
    [] OTHER -> "none"

\* The public operations that take a name.
NamedOps == {"register", "unregister", "start", "get", "isRunning", "restart",
             "stop", "listInstances"}

\* Constructor argument lists start is called with.
ArgLists == {<<>>, <<"1">>}

RECURSIVE Joined(_)
\* The elements of a JSON array, separated by commas.
Joined(args) ==
  IF args = <<>> THEN ""
  ELSE IF Len(args) = 1 THEN Head(args)
  ELSE Head(args) \o "," \o Joined(Tail(args))

\* argsKey = JSON.stringify(args)
ArgsKey(args) == "[" \o Joined(args) \o "]"

ArgKeys == {ArgsKey(args) : args \in ArgLists}

NoInstance == 0

NoSvcRes == [kind |-> "none", inst |-> NoInstance, cause |-> "none"]

\* A call that returned: the instance (start, get, restart), a boolean
\* (unregister) or the counts kept in the call's record (stop, stopAll).
SvcValue(kind, inst) == [kind |-> kind, inst |-> inst, cause |-> "none"]

\* A call that failed with a failure of the kind, wrapping the cause.
SvcFailure(kind, cause) == [kind |-> kind, inst |-> NoInstance, cause |-> cause]

IdleCall ==
  [op |-> "none", name |-> "none", key |-> "none", pc |-> "idle", inst |-> NoInstance,
   fresh |-> FALSE, live |-> FALSE, own |-> <<>>, i |-> 0, stopped |-> 0,
   failed |-> <<>>, res |-> NoSvcRes,
   base |-> 0, had |-> <<>>, hookFailed |-> {},
   names |-> <<>>, total |-> 0, failedNames |-> <<>>]

InitSvc ==
  /\ factories = {}
  /\ services = [n \in SvcNames |-> <<>>]
  /\ created = 0
  /\ svcCall = [t \in SvcTasks |-> IdleCall]
  /\ svcCalls = 0
  /\ constructed = [n \in SvcNames |-> [k \in ArgKeys |-> {}]]
  /\ returned = [n \in SvcNames |-> [k \in ArgKeys |-> {}]]
  /\ stopHooked = {}
  /\ startHooked = <<>>
  /\ startFailed = {}

\* The instance a Map of the directory holds under a key (NoInstance if none).
Lookup(map, k) ==
  LET at == {j \in 1..Len(map) : map[j].key = k}
  IN IF at = {} THEN NoInstance ELSE map[CHOOSE j \in at : TRUE].inst

\* Map.set: replaces the value under an existing key, else appends the entry.
Put(map, k, inst) ==
  IF Lookup(map, k) = NoInstance
    THEN Append(map, [key |-> k, inst |-> inst])
    ELSE [j \in 1..Len(map) |-> IF map[j].key = k THEN [key |-> k, inst |-> inst] ELSE map[j]]

\* this.services.has(name) && this.services.get(name).has(argsKey)
IsRunning_Never(n, k) == FALSE

IsRunning(n, k) == Lookup(services[n], k) # NoInstance

\* Call slots are interchangeable: a new call takes the lowest idle one.
FirstIdleCall(t) ==
  /\ svcCall[t].pc = "idle"
  /\ \A u \in SvcTasks : u < t => svcCall[u].pc # "idle"

\* A settled call's continuation runs before anything else does.
SvcSettling == \E u \in SvcTasks : svcCall[u].pc = "done"

\* The record of a new call.
NewCall(op, n) == [IdleCall EXCEPT !.op = op, !.name = n]

\* The call slots after slot t has taken the call with record c.
Begin(t, c) == [svcCall EXCEPT ![t] = c]

\* registerService of a valid name that has no factory yet.
RegisterService(n) ==
  /\ ~SvcSettling
  /\ n \notin factories
  /\ factories' = factories \cup {n}
  /\ UNCHANGED <<services, created, svcCall, svcCalls, constructed, returned, stopHooked>>
  /\ UNCHANGED <<startHooked, startFailed>>
  /\ SvcOnly

\* Any operation that takes a name, called with a name validateServiceName
\* rejects: it throws before it reads or writes anything.
InvalidName(t, op, name) ==
  /\ ~SvcSettling
  /\ FirstIdleCall(t)
  /\ svcCalls < MaxSvcCalls
  /\ svcCalls' = svcCalls + 1
  /\ ValidationFailure(name) # "none"
  /\ svcCall' = Begin(t, [NewCall(op, name) EXCEPT
       !.pc = "done",
       !.res = IF op = "stop"
                 THEN SvcFailure("Error", "none")
                 ELSE SvcFailure("InvalidArgumentError", "ValidationError")])
  /\ UNCHANGED <<factories, services, created, constructed, returned, stopHooked>>
  /\ UNCHANGED <<startHooked, startFailed>>
  /\ SvcOnly

\* The failure a call reports for a failure of the startService it made:
\* startService's own for start, wrapped in a ServiceError by getService and
\* in an UnexpectedError by restartService.
StartFailure(op, kind, cause) ==
  IF op = "get" THEN SvcFailure("ServiceError", kind)
  ELSE IF op = "restart" THEN SvcFailure("UnexpectedError", kind)
  ELSE SvcFailure(kind, cause)

\* startService up to its first await (or its return / throw before it), as
\* made by the call with record c in slot t.
Starting(t, c) ==
  LET n  == c.name
      k  == c.key
      id == created + 1
  IN IF IsRunning(n, k)
       THEN /\ svcCall' = Begin(t, [c EXCEPT !.pc = "done",
                                 !.res = SvcValue("instance", Lookup(services[n], k))])
            /\ returned' = [returned EXCEPT ![n][k] = @ \cup {Lookup(services[n], k)}]
            /\ UNCHANGED <<services, created, constructed, startHooked>>
       ELSE IF n \notin factories
         THEN /\ svcCall' = Begin(t, [c EXCEPT !.pc = "done",
                                   !.res = StartFailure(c.op, "ServiceError", "none")])
              /\ UNCHANGED <<services, created, constructed, returned, startHooked>>
         ELSE \/ /\ svcCall' = Begin(t, [c EXCEPT !.pc = "done",
                                      !.res = StartFailure(c.op, "UnexpectedError", "Error")])
                 /\ UNCHANGED <<services, created, constructed, returned, startHooked>>
              \/ /\ created' = id
                 /\ services' = [services EXCEPT ![n] = Put(@, k, id)]
                 /\ constructed' = [constructed EXCEPT ![n][k] = @ \cup {id}]
                 /\ svcCall' = Begin(t, [c EXCEPT !.pc = "starting", !.inst = id,
                                                      !.fresh = TRUE])
                 /\ startHooked' = Append(startHooked, id)
                 /\ UNCHANGED returned

\* startService(name, ...args).
StartService(t, n, args) ==
  /\ ~SvcSettling
  /\ FirstIdleCall(t)
  /\ svcCalls < MaxSvcCalls
  /\ svcCalls' = svcCalls + 1
  /\ Starting(t, [NewCall("start", n) EXCEPT !.key = ArgsKey(args)])
  /\ UNCHANGED <<factories, stopHooked>>
  /\ UNCHANGED startFailed
  /\ SvcOnly

\* getService(name, ...args): the stored instance, else startService.
GetService(t, n, args) ==
  /\ ~SvcSettling
  /\ FirstIdleCall(t)
  /\ svcCalls < MaxSvcCalls
  /\ svcCalls' = svcCalls + 1
  /\ Starting(t, [NewCall("get", n) EXCEPT !.key = ArgsKey(args)])
  /\ UNCHANGED <<factories, stopHooked>>
  /\ UNCHANGED startFailed
  /\ SvcOnly

\* await instance.start() has settled.
StartHook(t) ==
  /\ ~SvcSettling
  /\ svcCall[t].pc = "starting"
  /\ \/ /\ svcCall' = [svcCall EXCEPT ![t].pc = "done",
                         ![t].res = SvcValue("instance", svcCall[t].inst)]
        /\ returned' = IF svcCall[t].fresh
                         THEN [returned EXCEPT ![svcCall[t].name][svcCall[t].key] =
                                 @ \cup {svcCall[t].inst}]
                         ELSE returned
        /\ UNCHANGED startFailed
     \/ /\ svcCall' = [svcCall EXCEPT ![t].pc = "done",
                         ![t].res = StartFailure(svcCall[t].op, "UnexpectedError", "Error")]
        /\ startFailed' = startFailed \cup {svcCall[t].inst}
        /\ UNCHANGED returned
  /\ UNCHANGED <<factories, services, created, svcCalls, constructed, stopHooked,
                 startHooked>>
  /\ SvcOnly

\* The Map a stopService iterates: the directory's Map for the name while
\* that is still the one it fetched, else the detached Map it holds.
Instances(t) == IF svcCall[t].live THEN services[svcCall[t].name] ELSE svcCall[t].own

\* The call with record c once the stopService it made has settled
\* (rejected or not): stopService's own caller gets the result, stopAllService
\* adds it to its totals and goes on with the next name, restartService logs
\* a failure and goes on to startService.
StopSettled(c, rejected) ==
  IF c.op = "stopAll"
    THEN [c EXCEPT !.pc = "nextName",
                   !.total = @ + c.stopped,
                   !.failedNames = IF rejected \/ c.failed # <<>>
                                     THEN Append(@, c.name) ELSE @]
  ELSE IF c.op = "restart"
    THEN [c EXCEPT !.pc = "restartStart"]
  ELSE [c EXCEPT !.pc = "done",
                 !.res = IF rejected THEN SvcFailure("ServiceError", "none")
                                     ELSE SvcValue("stopped", NoInstance)]

\* stopService(n) up to its first await (or its return / throw before it),
\* as made by the call with record c0.
EnterStop(c0, n) ==
  LET c == [c0 EXCEPT !.name = n, !.stopped = 0, !.failed = <<>>, !.live = FALSE,
                      !.own = <<>>, !.i = 0]
  IN IF n \notin factories THEN StopSettled(c, TRUE)
     ELSE IF services[n] = <<>> THEN StopSettled(c, FALSE)
     ELSE [c EXCEPT !.pc = "stopping", !.live = TRUE, !.i = 1]

\* The instance whose stop() that part of stopService(n) calls.
FirstHooked(n) ==
  IF n \in factories /\ services[n] # <<>> THEN {services[n][1].inst} ELSE {}

\* stopService(name).
StopService(t, n) ==
  /\ ~SvcSettling
  /\ FirstIdleCall(t)
  /\ svcCalls < MaxSvcCalls
  /\ svcCalls' = svcCalls + 1
  /\ svcCall' = Begin(t, EnterStop([NewCall("stop", n) EXCEPT !.had = services[n]], n))
  /\ stopHooked' = stopHooked \cup FirstHooked(n)
  /\ UNCHANGED <<factories, services, created, constructed, returned>>
  /\ UNCHANGED <<startHooked, startFailed>>
  /\ SvcOnly

\* this.services.delete(name), as the other in-flight calls see it: a stop
\* still iterating the deleted Map keeps it, a start of the name that has
\* stored its instance no longer has it in the directory.
AfterDelete(n, c) ==
  IF c.name # n THEN c
  ELSE IF c.pc = "stopping" /\ c.live THEN [c EXCEPT !.live = FALSE, !.own = services[n]]
  ELSE IF c.pc = "starting" THEN [c EXCEPT !.fresh = FALSE]
  ELSE c

\* stoppedCount after an instance's stop() settled: counted only if it did
\* not throw.
Counted_Always(ok, count) == count + 1

Counted(ok, count) == IF ok THEN count + 1 ELSE count

\* await instance.stop() of the i-th entry has settled (ok or not); the loop
\* goes on with the next entry of the Map or, at its end, the name's entry
\* is deleted from the directory and stopService returns.
StopHook(t, ok) ==
  /\ ~SvcSettling
  /\ svcCall[t].pc = "stopping"
  /\ LET n    == svcCall[t].name
         cur  == Instances(t)[svcCall[t].i]
         me   == [svcCall[t] EXCEPT
                    !.stopped = Counted(ok, @),
                    !.failed = IF ok THEN @ ELSE Append(@, cur.key),
                    !.hookFailed = IF ok THEN @ ELSE @ \cup {cur.inst}]
     IN IF svcCall[t].i < Len(Instances(t))
          THEN /\ svcCall' = [svcCall EXCEPT ![t] = [me EXCEPT !.i = @ + 1]]
               /\ stopHooked' = stopHooked \cup {Instances(t)[svcCall[t].i + 1].inst}
               /\ UNCHANGED <<services, constructed, returned>>
          ELSE /\ services' = [services EXCEPT ![n] = <<>>]
               /\ constructed' = [constructed EXCEPT ![n] = [k \in ArgKeys |-> {}]]
               /\ returned' = [returned EXCEPT ![n] = [k \in ArgKeys |-> {}]]
               /\ svcCall' = [u \in SvcTasks |->
                    IF u = t THEN StopSettled(me, FALSE) ELSE AfterDelete(n, svcCall[u])]
               /\ UNCHANGED stopHooked
  /\ UNCHANGED <<factories, created, svcCalls>>
  /\ UNCHANGED <<startHooked, startFailed>>
  /\ SvcOnly

\* restartService: `if (this.isServiceRunning(name, ...args))`, the running
\* service is stopped first.
StopsFirst_Never(n, k) == FALSE

StopsFirst(n, k) == IsRunning(n, k)

\* restartService(name, ...args) up to its first await.
RestartService(t, n, args) ==
  /\ ~SvcSettling
  /\ FirstIdleCall(t)
  /\ svcCalls < MaxSvcCalls
  /\ svcCalls' = svcCalls + 1
  /\ LET k == ArgsKey(args)
         c == [NewCall("restart", n) EXCEPT !.key = k, !.had = services[n],
                                           !.base = created]
     IN \/ /\ n \notin factories
           /\ svcCall' = Begin(t, [c EXCEPT !.pc = "done",
                                            !.res = SvcFailure("ServiceError", "none")])
           /\ UNCHANGED <<services, created, constructed, returned, stopHooked,
                          startHooked>>
        \/ /\ n \in factories
           /\ StopsFirst(n, k)
           /\ svcCall' = Begin(t, EnterStop(c, n))
           /\ stopHooked' = stopHooked \cup FirstHooked(n)
           /\ UNCHANGED <<services, created, constructed, returned, startHooked>>
        \/ /\ n \in factories
           /\ ~StopsFirst(n, k)
           /\ Starting(t, c)
           /\ UNCHANGED stopHooked
  /\ UNCHANGED factories
  /\ UNCHANGED startFailed
  /\ SvcOnly

\* restartService after its stopService has settled: startService.
RestartStart(t) ==
  /\ ~SvcSettling
  /\ svcCall[t].pc = "restartStart"
  /\ Starting(t, svcCall[t])
  /\ UNCHANGED <<factories, svcCalls, stopHooked>>
  /\ UNCHANGED startFailed
  /\ SvcOnly

\* unregisterService(name).  The factory is deleted first, so the
\* stopService(name) it then awaits fails its registration check and throws;
\* unregister rethrows that as a ServiceError and never reaches its own
\* services.delete(name) nor `return true`.
UnregisterService(t, n) ==
  /\ ~SvcSettling
  /\ FirstIdleCall(t)
  /\ svcCalls < MaxSvcCalls
  /\ svcCalls' = svcCalls + 1
  /\ LET c == [NewCall("unregister", n) EXCEPT !.had = services[n], !.pc = "done"]
     IN IF n \notin factories
          THEN /\ svcCall' = Begin(t, [c EXCEPT !.res = SvcValue("false", NoInstance)])
               /\ UNCHANGED factories
          ELSE /\ factories' = factories \ {n}
               /\ svcCall' = Begin(t, [c EXCEPT !.res = SvcFailure("ServiceError", "ServiceError")])
  /\ UNCHANGED <<services, created, constructed, returned, stopHooked>>
  /\ UNCHANGED <<startHooked, startFailed>>
  /\ SvcOnly

RECURSIVE InsertionOrder(_)
\* The names in the set in the order their entries were added to the
\* directory (each entry's first instance is the one that created it).
InsertionOrder(S) ==
  IF S = {} THEN <<>>
  ELSE LET n == CHOOSE n \in S : \A m \in S : services[n][1].inst <= services[m][1].inst
       IN <<n>> \o InsertionOrder(S \ {n})

\* Array.from(this.services.keys())
ServiceNames == InsertionOrder({n \in SvcNames : services[n] # <<>>})

\* this.services.clear(), with what the other in-flight calls see of it.
Cleared(t, c) ==
  [u \in SvcTasks |-> IF u = t THEN c ELSE AfterDelete(svcCall[u].name, svcCall[u])]

\* stopAllService() up to its first await (or its return before it).
StopAllService(t) ==
  /\ ~SvcSettling
  /\ FirstIdleCall(t)
  /\ svcCalls < MaxSvcCalls
  /\ svcCalls' = svcCalls + 1
  /\ LET c == NewCall("stopAll", "none")
     IN IF ServiceNames = <<>>
          THEN /\ svcCall' = Begin(t, [c EXCEPT !.pc = "done",
                                                !.res = SvcValue("stopped", NoInstance)])
               /\ UNCHANGED stopHooked
          ELSE /\ svcCall' = Begin(t, EnterStop([c EXCEPT !.names = Tail(ServiceNames)],
                                                Head(ServiceNames)))
               /\ stopHooked' = stopHooked \cup FirstHooked(Head(ServiceNames))
  /\ UNCHANGED <<factories, services, created, constructed, returned>>
  /\ UNCHANGED <<startHooked, startFailed>>
  /\ SvcOnly

\* stopAllService after the stopService of one name has settled: the next
\* name of the list or, at its end, this.services.clear() and the totals.
StopAllNext(t) ==
  /\ ~SvcSettling
  /\ svcCall[t].pc = "nextName"
  /\ LET c == svcCall[t]
     IN IF c.names = <<>>
          THEN /\ services' = [n \in SvcNames |-> <<>>]
               /\ constructed' = [n \in SvcNames |-> [k \in ArgKeys |-> {}]]
               /\ returned' = [n \in SvcNames |-> [k \in ArgKeys |-> {}]]
               /\ svcCall' = Cleared(t, [c EXCEPT !.pc = "done",
                                                  !.res = SvcValue("stopped", NoInstance)])
               /\ UNCHANGED stopHooked
          ELSE /\ svcCall' = [svcCall EXCEPT ![t] =
                    EnterStop([c EXCEPT !.names = Tail(c.names)], Head(c.names))]
               /\ stopHooked' = stopHooked \cup FirstHooked(Head(c.names))
               /\ UNCHANGED <<services, constructed, returned>>
  /\ UNCHANGED <<factories, created, svcCalls>>
  /\ UNCHANGED <<startHooked, startFailed>>
  /\ SvcOnly

\* The caller has received the call's result.
SvcReturn(t) ==
  /\ svcCall[t].pc = "done"
  /\ svcCall' = [svcCall EXCEPT ![t] = IdleCall]
  /\ UNCHANGED <<factories, services, created, svcCalls, constructed, returned, stopHooked>>
  /\ UNCHANGED <<startHooked, startFailed>>
  /\ SvcOnly

NextSvc ==
  \/ \E n \in SvcNames : RegisterService(n)
  \/ \E t \in SvcTasks, n \in SvcNames, args \in ArgLists : StartService(t, n, args)
  \/ \E t \in SvcTasks : StartHook(t)
  \/ \E t \in SvcTasks, n \in SvcNames : StopService(t, n)
  \/ \E t \in SvcTasks, ok \in BOOLEAN : StopHook(t, ok)
  \/ \E t \in SvcTasks : SvcReturn(t)

\* No registry call is in flight.
Quiet == \A u \in SvcTasks : svcCall[u].pc = "idle"

\* The registry used by a caller that awaits each call before making the
\* next one, with all operations.
NextSvcSeq ==
  \/ \E n \in SvcNames : RegisterService(n)
  \/ \E t \in SvcTasks, op \in NamedOps, name \in InvalidNames :
       Quiet /\ InvalidName(t, op, name)
  \/ \E t \in SvcTasks, n \in SvcNames, args \in ArgLists :
       Quiet /\ StartService(t, n, args)
  \/ \E t \in SvcTasks, n \in SvcNames, args \in ArgLists :
       Quiet /\ GetService(t, n, args)
  \/ \E t \in SvcTasks : StartHook(t)
  \/ \E t \in SvcTasks, n \in SvcNames : Quiet /\ StopService(t, n)
  \/ \E t \in SvcTasks, ok \in BOOLEAN : StopHook(t, ok)
  \/ \E t \in SvcTasks, n \in SvcNames, args \in ArgLists :
       Quiet /\ RestartService(t, n, args)
  \/ \E t \in SvcTasks : RestartStart(t)
  \/ \E t \in SvcTasks, n \in SvcNames : Quiet /\ UnregisterService(t, n)
  \/ \E t \in SvcTasks : Quiet /\ StopAllService(t)
  \/ \E t \in SvcTasks : StopAllNext(t)
  \/ \E t \in SvcTasks : SvcReturn(t)

\* ------------------------------------------------------------------------
\* Tab Manager
\* ------------------------------------------------------------------------

\* Number of views (and so of tabs) created in one run.
MaxViews == 2

NoTab == 0

\* The empty string given as a tab id.
InvalidTabId == -1

\* The empty string given as an extension id.
InvalidExtId == ""

\* One createNewTab reads the clock at the reading of the createNewTab
\* before it or one unit later; the first one reads 0.
Elapsed == IF viewsMade = 0 THEN {0} ELSE {0, 1}

\* An id that no tab is created with.
UnknownTabId == MaxViews + 1

\* `tab-${Date.now()}`: the id is the clock reading.
GenerateTabId(reading) == reading

\* op: the call; kind: "ok" or the failure it threw; idx: the activeTabIndex
\* it returned.
NoLastTab == [op |-> "none", kind |-> "none", idx |-> -1]

\* A call that returned `idx` (calls without an index return -1 here).
TabReturned(op, idx) == [NoLastTab EXCEPT !.op = op, !.kind = "ok", !.idx = idx]

\* A call that threw a failure of the given kind.
TabThrew(op, kind) == [NoLastTab EXCEPT !.op = op, !.kind = kind]

InitTab ==
  /\ tabs = <<>>
  /\ activeTab = NoTab
  /\ attached = {}
  /\ visible = {}
  /\ viewsMade = 0
  /\ now = 0
  /\ creating = {}
  /\ lastTab = NoLastTab

\* this.tabs.findIndex((tab) => tab.id === id), 0-based, -1 if there is none.
FindIndex(list, id) ==
  IF \E i \in 1..Len(list) : list[i].id = id
  THEN (CHOOSE i \in 1..Len(list) :
          /\ list[i].id = id
          /\ \A j \in 1..(i - 1) : list[j].id # id) - 1
  ELSE -1

\* The id field of the Tab object `obj` of the list.
IdOf(list, obj) == list[CHOOSE i \in 1..Len(list) : list[i].obj = obj].id

\* getTabIndex(getActiveTab()).
GetTabIndex(list, active) ==
  IF active = NoTab THEN -1 ELSE FindIndex(list, IdOf(list, active))

\* hideTab / showTab: the first tab with the id, if it still has its view.
SetVisible(list, vis, id, flag) ==
  LET i == FindIndex(list, id) IN
    IF i # -1 /\ list[i + 1].hasView
    THEN IF flag THEN vis \cup {list[i + 1].obj} ELSE vis \ {list[i + 1].obj}
    ELSE vis

\* The promotion policy of closeTab: the 0-based position in the list after
\* the removal whose tab becomes active (-1: none).
Promoted(tabIndex, len) ==
  IF len = 0 THEN -1
  ELSE IF tabIndex >= len THEN len - 1
  ELSE tabIndex

\* The list without its entry at 1-based position i: splice(i - 1, 1).
RemoveAt(list, i) ==
  [j \in 1..(Len(list) - 1) |-> IF j < i THEN list[j] ELSE list[j + 1]]

\* The list with e inserted at 1-based position i: splice(i - 1, 0, e).
InsertAt(list, i, e) ==
  [j \in 1..(Len(list) + 1) |->
     IF j < i THEN list[j] ELSE IF j = i THEN e ELSE list[j - 1]]

\* closeTab(tabId) on the manager state st = [tabs, activeTab, attached,
\* visible]; the result carries the state after it, kind ("ok" or the
\* failure thrown) and the activeTabIndex returned.
CloseIn(st, tabId) ==
  LET tabIndex == FindIndex(st.tabs, tabId) IN
    IF tabIndex = -1
    THEN [tabs |-> st.tabs, activeTab |-> st.activeTab, attached |-> st.attached,
          visible |-> st.visible, kind |-> "TabError", idx |-> -1]
    ELSE
      LET tab == st.tabs[tabIndex + 1]
          rest == RemoveAt(st.tabs, tabIndex + 1)
          \* removeChildView and webContents.close() of the removed tab's view
          att == IF tab.hasView THEN st.attached \ {tab.obj} ELSE st.attached
          vis == IF tab.hasView THEN st.visible \ {tab.obj} ELSE st.visible
          wasActive == /\ st.activeTab # NoTab
                       /\ IdOf(st.tabs, st.activeTab) = tabId
          \* this.activeTab.view = null
          nulled == [i \in 1..Len(rest) |->
                       IF wasActive /\ rest[i].obj = st.activeTab
                       THEN [rest[i] EXCEPT !.hasView = FALSE]
                       ELSE rest[i]]
          p == Promoted(tabIndex, Len(nulled))
          active == IF ~wasActive THEN st.activeTab
                    ELSE IF p = -1 THEN NoTab
                    ELSE nulled[p + 1].obj
          shown == IF wasActive /\ p # -1
                   THEN SetVisible(nulled, vis, nulled[p + 1].id, TRUE)
                   ELSE vis
      IN [tabs |-> nulled, activeTab |-> active, attached |-> att,
          visible |-> shown, kind |-> "ok", idx |-> GetTabIndex(nulled, active)]

\* switchToTab(tabId) on the manager state st.
SwitchIn(st, tabId) ==
  LET same == [tabs |-> st.tabs, activeTab |-> st.activeTab,
               attached |-> st.attached, visible |-> st.visible,
               kind |-> "ok", idx |-> GetTabIndex(st.tabs, st.activeTab)]
      next == FindIndex(st.tabs, tabId)
  IN
    IF tabId = InvalidTabId
    THEN [same EXCEPT !.kind = "InvalidArgumentError", !.idx = -1]
    ELSE IF st.activeTab # NoTab /\ IdOf(st.tabs, st.activeTab) = tabId
    THEN same
    ELSE IF next = -1
    THEN same
    ELSE
      LET hidden == IF st.activeTab # NoTab
                    THEN SetVisible(st.tabs, st.visible,
                                    IdOf(st.tabs, st.activeTab), FALSE)
                    ELSE st.visible
          shown == SetVisible(st.tabs, hidden, tabId, TRUE)
          active == st.tabs[next + 1].obj
      IN [same EXCEPT !.activeTab = active, !.visible = shown,
                      !.idx = GetTabIndex(st.tabs, active)]

Manager == [tabs |-> tabs, activeTab |-> activeTab, attached |-> attached,
            visible |-> visible]

\* The manager's fields take the values of the result r.
Becomes(r) ==
  /\ tabs' = r.tabs
  /\ activeTab' = r.activeTab
  /\ attached' = r.attached
  /\ visible' = r.visible

\* createNewTab(extensionUniqueId) up to its first await: the id is taken
\* from the clock and the view is constructed (visible, as a new view is)
\* and added to the window.
CreateNewTab(ext, elapsed) ==
  /\ viewsMade < MaxViews
  /\ IF ext = InvalidExtId
     THEN /\ lastTab' = TabThrew("createNewTab", "InvalidArgumentError")
          /\ UNCHANGED <<attached, visible, viewsMade, creating, now>>
     ELSE /\ now' = now + elapsed
          /\ viewsMade' = viewsMade + 1
          /\ attached' = attached \cup {viewsMade + 1}
          /\ visible' = visible \cup {viewsMade + 1}
          /\ creating' = creating \cup
                           {[obj |-> viewsMade + 1, id |-> GenerateTabId(now'),
                             ext |-> ext]}
          /\ UNCHANGED lastTab
  /\ UNCHANGED <<tabs, activeTab>>
  /\ TabOnly

\* createNewTab after the awaits: the load failed (TabError, nothing else
\* is done), or the tab is pushed and switched to.
CreateLoaded(c, ok) ==
  /\ c \in creating
  /\ creating' = creating \ {c}
  /\ IF ok
     THEN LET pushed == Append(tabs, [obj |-> c.obj, id |-> c.id, ext |-> c.ext,
                                      hasView |-> TRUE])
              r == SwitchIn([Manager EXCEPT !.tabs = pushed], c.id)
          IN /\ Becomes(r)
             /\ lastTab' = TabReturned("createNewTab", -1)
     ELSE /\ lastTab' = TabThrew("createNewTab", "TabError")
          /\ UNCHANGED <<tabs, activeTab, attached, visible>>
  /\ UNCHANGED <<viewsMade, now>>
  /\ TabOnly

CloseTab(tabId) ==
  /\ LET r == CloseIn(Manager, tabId) IN
       /\ Becomes(r)
       /\ lastTab' = [op |-> "closeTab", kind |-> r.kind, idx |-> r.idx]
  /\ UNCHANGED <<viewsMade, now, creating>>
  /\ TabOnly

SwitchToTab(tabId) ==
  /\ LET r == SwitchIn(Manager, tabId) IN
       /\ Becomes(r)
       /\ lastTab' = [NoLastTab EXCEPT !.op = "switchToTab", !.kind = r.kind,
                                       !.idx = r.idx]
  /\ UNCHANGED <<viewsMade, now, creating>>
  /\ TabOnly

\* The bounds check of reorderTab.
ValidIndices_Always(fromIndex, toIndex, len) == TRUE

ValidIndices(fromIndex, toIndex, len) ==
  ~(fromIndex < 0 \/ toIndex < 0 \/ fromIndex >= len \/ toIndex >= len)

\* The list after splice(fromIndex, 1) and splice(toIndex, 0, movedTab).
\* Indices outside the list, which the bounds check keeps out, are taken as
\* splice takes them: a negative index counts from the end, and an index
\* past the end removes nothing (the undefined entry that the second
\* splice would then insert is left out).
Moved(list, fromIndex, toIndex) ==
  LET f == IF fromIndex < 0 THEN Len(list) + fromIndex ELSE fromIndex
      has == f >= 0 /\ f < Len(list)
      rest == IF has THEN RemoveAt(list, f + 1) ELSE list
      t0 == IF toIndex < 0 THEN Len(rest) + toIndex ELSE toIndex
      t == IF t0 < 0 THEN 0 ELSE IF t0 > Len(rest) THEN Len(rest) ELSE t0
  IN IF has THEN InsertAt(rest, t + 1, list[f + 1]) ELSE rest

ReorderTab(fromIndex, toIndex) ==
  /\ IF ValidIndices(fromIndex, toIndex, Len(tabs))
     THEN /\ tabs' = Moved(tabs, fromIndex, toIndex)
          /\ lastTab' = TabReturned("reorderTab", GetTabIndex(tabs', activeTab))
     ELSE /\ tabs' = tabs
          /\ lastTab' = TabThrew("reorderTab", "InvalidArgumentError")
  /\ UNCHANGED <<activeTab, attached, visible, viewsMade, now, creating>>
  /\ TabOnly

\* The ids of the tabs of the extension, in list order: tabsToClose.
RECURSIVE TabsToClose(_, _)
TabsToClose(list, ext) ==
  IF list = <<>> THEN <<>>
  ELSE IF Head(list).ext = ext
  THEN <<Head(list).id>> \o TabsToClose(Tail(list), ext)
  ELSE TabsToClose(Tail(list), ext)

\* for (const tab of tabsToClose) activeTabIndex = closeTab(tab.id)...: r is
\* the result so far; a closeTab that throws ends the loop.
RECURSIVE CloseEach(_, _)
CloseEach(r, ids) ==
  IF ids = <<>> \/ r.kind # "ok" THEN r
  ELSE CloseEach(CloseIn(r, Head(ids)), Tail(ids))

CloseExtensionById(ext) ==
  /\ IF ext = InvalidExtId
     THEN /\ lastTab' = TabThrew("closeExtensionById", "InvalidArgumentError")
          /\ UNCHANGED <<tabs, activeTab, attached, visible>>
     ELSE LET start == [tabs |-> tabs, activeTab |-> activeTab,
                        attached |-> attached, visible |-> visible,
                        kind |-> "ok", idx |-> -1]
              r == CloseEach(start, TabsToClose(tabs, ext))
          IN /\ Becomes(r)
             /\ lastTab' = [NoLastTab EXCEPT !.op = "closeExtensionById",
                                             !.kind = r.kind, !.idx = r.idx]
  /\ UNCHANGED <<viewsMade, now, creating>>
  /\ TabOnly

\* this.tabs.forEach((tab) => this.hideTab(tab.id)): each id hides the first
\* tab that has it.
HiddenByAll(list) ==
  {list[i].obj : i \in {j \in 1..Len(list) :
                          FindIndex(list, list[j].id) = j - 1 /\ list[j].hasView}}

HideAllTabs ==
  /\ visible' = visible \ HiddenByAll(tabs)
  /\ activeTab' = NoTab
  /\ lastTab' = NoLastTab
  /\ UNCHANGED <<tabs, attached, viewsMade, now, creating>>
  /\ TabOnly

\* The tab:hide command: tabService.hideTab(payload.tabId).
HideTab(tabId) ==
  /\ visible' = SetVisible(tabs, visible, tabId, FALSE)
  /\ lastTab' = NoLastTab
  /\ UNCHANGED <<tabs, activeTab, attached, viewsMade, now, creating>>
  /\ TabOnly

\* The tab:show command: tabService.showTab(payload.tabId).
ShowTab(tabId) ==
  /\ visible' = SetVisible(tabs, visible, tabId, TRUE)
  /\ lastTab' = NoLastTab
  /\ UNCHANGED <<tabs, activeTab, attached, viewsMade, now, creating>>
  /\ TabOnly

\* The tab ids that calls are made with: the ids of the tabs of the list and
\* one id that no tab has.
TabIds == {tabs[i].id : i \in 1..Len(tabs)} \cup {UnknownTabId}

\* The index pairs reorderTab is called with: every pair inside the list,
\* and pairs with one index just below 0 or just past the end.
ReorderInputs ==
  LET inside == 0..(Len(tabs) - 1) IN
    (inside \X inside) \cup {<<-1, 0>>, <<0, -1>>, <<Len(tabs), 0>>, <<0, Len(tabs)>>}

NextTab ==
  \/ \E ext \in Ids \cup {InvalidExtId}, elapsed \in Elapsed :
       CreateNewTab(ext, elapsed)
  \/ \E c \in creating, ok \in BOOLEAN : CreateLoaded(c, ok)
  \/ \E tabId \in TabIds : CloseTab(tabId)
  \/ \E tabId \in TabIds \cup {InvalidTabId} : SwitchToTab(tabId)
  \/ \E pair \in ReorderInputs : ReorderTab(pair[1], pair[2])
  \/ \E ext \in Ids \cup {InvalidExtId} : CloseExtensionById(ext)
  \/ HideAllTabs
  \/ \E tabId \in TabIds : HideTab(tabId)
  \/ \E tabId \in TabIds : ShowTab(tabId)

\* ------------------------------------------------------------------------
\* Event Bus
\* ------------------------------------------------------------------------

\* Most middlewares that usePre and usePost register in one run, together.
MaxBusMw == 2

\* Most handlers that `on` subscribes at one time, over all events.
MaxHandlers == 2

\* The event names.
BusEvents == {"ev1", "ev2"}

\* The handler functions `on` is called with: each is one function object
\* that returns or throws.
Handlers == {[fn |-> 1, kind |-> "returns"], [fn |-> 2, kind |-> "throws"],
             [fn |-> 3, kind |-> "returns"]}

\* What a pre-middleware does: return undefined, return an object (its one
\* property carries the middleware's tag), or throw.
BusPreKinds == {"undefined", "object", "throws"}

\* What a post-middleware does.
BusPostKinds == {"undefined", "throws"}

\* The data every emit is called with: an object on which the property the
\* pre-middlewares return is not set.
EmitData == <<>>

NoEmit == [pc |-> "idle", event |-> "none", i |-> 0, data |-> EmitData, res |-> "none"]

InitBus ==
  /\ events = [e \in BusEvents |-> <<>>]
  /\ busPreMiddleware = <<>>
  /\ busPostMiddleware = <<>>
  /\ emit = NoEmit
  /\ busTrace = <<>>

\* usePre: this.preMiddleware.push(middleware).
BusUsePre(kind) ==
  /\ emit.pc = "idle"
  /\ Len(busPreMiddleware) + Len(busPostMiddleware) < MaxBusMw
  /\ busPreMiddleware' = Append(busPreMiddleware,
                                [kind |-> kind, tag |-> Len(busPreMiddleware) + 1])
  /\ UNCHANGED <<events, busPostMiddleware, emit, busTrace>>
  /\ BusOnly

\* usePost: this.postMiddleware.push(middleware).
BusUsePost(kind) ==
  /\ emit.pc = "idle"
  /\ Len(busPreMiddleware) + Len(busPostMiddleware) < MaxBusMw
  /\ busPostMiddleware' = Append(busPostMiddleware,
                                 [kind |-> kind, tag |-> Len(busPostMiddleware) + 1])
  /\ UNCHANGED <<events, busPreMiddleware, emit, busTrace>>
  /\ BusOnly

\* Handlers subscribed over all events.
Subscribed == LET n(e) == Len(events[e]) IN n("ev1") + n("ev2")

\* on(event, handler): the handler is pushed to the event's list.
On(event, handler) ==
  /\ emit.pc = "idle"
  /\ Subscribed < MaxHandlers
  /\ events' = [events EXCEPT ![event] = Append(@, handler)]
  /\ UNCHANGED <<busPreMiddleware, busPostMiddleware, emit, busTrace>>
  /\ BusOnly

\* list.filter((h) => h !== handler)
Without(list, handler) == SelectSeq(list, LAMBDA h : h # handler)

\* off(event, handler): every occurrence of the handler is removed from the
\* event's list; off(event): the event's list is deleted.
Off(event, handler, all) ==
  /\ emit.pc = "idle"
  /\ events[event] # <<>>
  /\ events' = [events EXCEPT ![event] = IF all THEN <<>> ELSE Without(@, handler)]
  /\ UNCHANGED <<busPreMiddleware, busPostMiddleware, emit, busTrace>>
  /\ BusOnly

\* emit(event, data) up to the first pre-middleware.
Emit(event) ==
  /\ emit.pc = "idle"
  /\ emit' = [pc |-> "pre", event |-> event, i |-> 1, data |-> EmitData, res |-> "none"]
  /\ busTrace' = <<>>
  /\ UNCHANGED <<events, busPreMiddleware, busPostMiddleware>>
  /\ BusOnly

\* Object.assign(data, result) for the object a pre-middleware returned: the
\* property is set to the middleware's value, whatever it was.
Assign(data, mw) == <<mw.tag>>

\* The loop over the pre-middlewares: one is called with a frozen copy of the
\* data and awaited; what it returns is merged into the data unless it is
\* undefined, what it throws is caught and logged. After the last one the
\* loop over the handlers starts.
EmitPre ==
  /\ emit.pc = "pre"
  /\ IF emit.i <= Len(busPreMiddleware)
       THEN LET mw == busPreMiddleware[emit.i] IN
              /\ busTrace' = Append(busTrace, [at |-> "pre", fn |-> mw.tag, data |-> emit.data])
              /\ emit' = [emit EXCEPT !.i = @ + 1,
                                      !.data = IF mw.kind = "object" THEN Assign(@, mw) ELSE @]
       ELSE /\ emit' = [emit EXCEPT !.pc = "handlers", !.i = 1]
            /\ UNCHANGED busTrace
  /\ UNCHANGED <<events, busPreMiddleware, busPostMiddleware>>
  /\ BusOnly

\* The loop over this.events[event]: `await handler(data)`; what a handler
\* throws is not caught, and emit rejects with it. After the last handler
\* the loop over the post-middlewares starts.
EmitHandler ==
  /\ emit.pc = "handlers"
  /\ IF emit.i <= Len(events[emit.event])
       THEN LET h == events[emit.event][emit.i] IN
              /\ busTrace' = Append(busTrace, [at |-> "handler", fn |-> h.fn, data |-> emit.data])
              /\ emit' = IF h.kind = "throws"
                           THEN [emit EXCEPT !.pc = "done", !.res = "rejected"]
                           ELSE [emit EXCEPT !.i = @ + 1]
       ELSE /\ emit' = [emit EXCEPT !.pc = "post", !.i = 1]
            /\ UNCHANGED busTrace
  /\ UNCHANGED <<events, busPreMiddleware, busPostMiddleware>>
  /\ BusOnly

\* The loop over the post-middlewares: each is called with the frozen copy of
\* the final data and awaited; what it throws is caught and logged. After
\* the last one emit resolves.
EmitPost ==
  /\ emit.pc = "post"
  /\ IF emit.i <= Len(busPostMiddleware)
       THEN LET mw == busPostMiddleware[emit.i] IN
              /\ busTrace' = Append(busTrace, [at |-> "post", fn |-> mw.tag, data |-> emit.data])
              /\ emit' = [emit EXCEPT !.i = @ + 1]
       ELSE /\ emit' = [emit EXCEPT !.pc = "done", !.res = "resolved"]
            /\ UNCHANGED busTrace
  /\ UNCHANGED <<events, busPreMiddleware, busPostMiddleware>>
  /\ BusOnly

\* The caller has received emit's outcome.
EmitSettled ==
  /\ emit.pc = "done"
  /\ emit' = NoEmit
  /\ busTrace' = <<>>
  /\ UNCHANGED <<events, busPreMiddleware, busPostMiddleware>>
  /\ BusOnly

NextBus ==
  \/ \E kind \in BusPreKinds : BusUsePre(kind)
  \/ \E kind \in BusPostKinds : BusUsePost(kind)
  \/ \E event \in BusEvents, handler \in Handlers : On(event, handler)
  \/ \E event \in BusEvents, handler \in Handlers, all \in BOOLEAN : Off(event, handler, all)
  \/ \E event \in BusEvents : Emit(event)
  \/ EmitPre
  \/ EmitHandler
  \/ EmitPost
  \/ EmitSettled

\* ------------------------------------------------------------------------
\* BaseError: an error with a cause, and the two renderings of its cause
\* chain. A string is a sequence of pieces (the substituted values and the
\* literal parts of the templates); concatenation is \o.
\* ------------------------------------------------------------------------

\* Number of Error objects.
MaxErrors == 3

\* `undefined` as a cause.
NoError == 0

\* The message the n-th object is constructed with.
MessageOf(n) == "message " \o ToString(n)

NoWalk ==
  [fn |-> "none", this |-> NoError, current |-> NoError, visited |-> {},
   result |-> <<>>, messages |-> <<>>]

NoChain == [this |-> NoError, result |-> <<>>]

NoChainArray == [this |-> NoError, messages |-> <<>>]

InitErr ==
  /\ errors = <<>>
  /\ walk = NoWalk
  /\ chain = NoChain
  /\ chainArray = NoChainArray

\* The renderings are synchronous: nothing else runs while one is running.
Rendering == walk.fn # "none"

\* new BaseError(message, cause) or new Error(message): name is the class
\* name, cause the given error (undefined for a plain Error).
NewError(base, message, c) ==
  /\ ~Rendering
  /\ Len(errors) < MaxErrors
  /\ errors' = Append(errors, [base |-> base, message |-> message,
                               cause |-> IF base THEN c ELSE NoError])
  /\ chain' = NoChain
  /\ chainArray' = NoChainArray
  /\ UNCHANGED walk
  /\ ErrOnly

\* error.cause = other: `cause` is a public field.
SetCause(e, c) ==
  /\ ~Rendering
  /\ errors[e].cause # c
  /\ errors' = [errors EXCEPT ![e].cause = c]
  /\ chain' = NoChain
  /\ chainArray' = NoChainArray
  /\ UNCHANGED walk
  /\ ErrOnly

\* error.name
Name(e) == IF errors[e].base THEN "BaseError" ELSE "Error"

\* `${name}: ${message}`
GetMessage(e) == <<Name(e), ": ", errors[e].message>>

\* The separator the string rendering puts before every link.
Arrow == "\n -> "

\* The circular-reference sentinel.
Sentinel == "Circular reference detected in error cause chain."

\* `current instanceof BaseError ? current.cause : undefined`
CauseOf(e) == IF errors[e].base THEN errors[e].cause ELSE NoError

\* No cause chain is ever reported as circular.
Circular_Never(current) == FALSE

\* `if (currentCause)` after the loop: the loop stopped at a visited error.
Circular(current) == current # NoError

\* getCauseMessageChain() up to its loop: result = this.getMessage(), an
\* empty visited set, currentCause = this.cause.
GetCauseMessageChain(e) ==
  /\ ~Rendering
  /\ errors[e].base
  /\ walk' = [NoWalk EXCEPT !.fn = "string", !.this = e, !.current = errors[e].cause,
                            !.result = GetMessage(e)]
  /\ chain' = NoChain
  /\ chainArray' = IF chainArray.this = e THEN chainArray ELSE NoChainArray
  /\ UNCHANGED errors
  /\ ErrOnly

\* One test of `while (currentCause && !visited.has(currentCause))`: an
\* iteration of the loop, or the end of the loop and the return.
ChainLoop ==
  /\ walk.fn = "string"
  /\ IF walk.current # NoError /\ walk.current \notin walk.visited
       THEN /\ walk' = [walk EXCEPT
                          !.visited = @ \cup {walk.current},
                          !.result = @ \o <<Arrow>> \o GetMessage(walk.current),
                          !.current = CauseOf(walk.current)]
            /\ UNCHANGED chain
       ELSE /\ chain' = [this |-> walk.this,
                         result |-> IF Circular(walk.current)
                                      THEN walk.result \o <<Arrow, Sentinel>>
                                      ELSE walk.result]
            /\ walk' = NoWalk
  /\ UNCHANGED <<errors, chainArray>>
  /\ ErrOnly

\* getCauseMessageChainArray() up to its loop: no messages, an empty visited
\* set, current = this.
GetCauseMessageChainArray(e) ==
  /\ ~Rendering
  /\ errors[e].base
  /\ walk' = [NoWalk EXCEPT !.fn = "array", !.this = e, !.current = e]
  /\ chainArray' = NoChainArray
  /\ chain' = IF chain.this = e THEN chain ELSE NoChain
  /\ UNCHANGED errors
  /\ ErrOnly

\* One test of `while (current && !visited.has(current))`.
ArrayLoop ==
  /\ walk.fn = "array"
  /\ IF walk.current # NoError /\ walk.current \notin walk.visited
       THEN /\ walk' = [walk EXCEPT
                          !.visited = @ \cup {walk.current},
                          !.messages = Append(@, GetMessage(walk.current)),
                          !.current = CauseOf(walk.current)]
            /\ UNCHANGED chainArray
       ELSE /\ chainArray' = [this |-> walk.this,
                              messages |-> IF Circular(walk.current)
                                             THEN Append(walk.messages, <<Sentinel>>)
                                             ELSE walk.messages]
            /\ walk' = NoWalk
  /\ UNCHANGED <<errors, chain>>
  /\ ErrOnly

\* The steps of a rendering that has been called.
StepsErr == ChainLoop \/ ArrayLoop

NextErr ==
  \/ \E base \in BOOLEAN, c \in 0..Len(errors) :
       NewError(base, MessageOf(Len(errors) + 1), c)
  \/ \E e \in 1..Len(errors), c \in 1..Len(errors) : SetCause(e, c)
  \/ \E e \in 1..Len(errors) : GetCauseMessageChain(e)
  \/ ChainLoop
  \/ \E e \in 1..Len(errors) : GetCauseMessageChainArray(e)
  \/ ArrayLoop

\* ------------------------------------------------------------------------
\* Specifications
\* ------------------------------------------------------------------------
vars == <<extVars, cmdVars, svcVars, tabVars, busVars, errVars>>

Init == InitExt /\ InitCmd /\ InitSvc /\ InitTab /\ InitBus /\ InitErr

SpecExt == Init /\ [][NextExt]_vars

\* Every filesystem, store and view call returns and every continuation
\* that can run does run: the steps inside the operations are taken as long
\* as one is possible.
SpecExtFair == Init /\ [][NextExt]_vars /\ WF_vars(StepsExt)

SpecCmd == Init /\ [][NextCmd]_vars

SpecSvc == Init /\ [][NextSvc]_vars

SpecSvcSeq == Init /\ [][NextSvcSeq]_vars

SpecTab == Init /\ [][NextTab]_vars

SpecBus == Init /\ [][NextBus]_vars

SpecErr == Init /\ [][NextErr]_vars

\* A rendering is synchronous code: once called, its loop runs on.
SpecErrFair == Init /\ [][NextErr]_vars /\ WF_vars(StepsErr)

\* ------------------------------------------------------------------------
\* Extension Manager properties (checked under SpecExt)
\* ------------------------------------------------------------------------

\* The call in slot t has just completed after running its per-id section.
Completed(t) == task[t].pc = "done" /\ task[t].res.at # "validate"

HasRow(i) == extensions[i] # "none"

HasDir(i) == extDir[i] # "absent"

\* C1: after every completed (successful or failed) operation, a manifest row
\* exists for the operation's uniqueId if and only if its extension directory
\* exists.
C1_RowIffDirectory ==
  \A t \in Tasks : Completed(t) => (HasRow(task[t].id) <=> HasDir(task[t].id))

\* C2: for one uniqueId at most one operation is inside its per-id section at
\* any time; every change of the id's directory or row is made by the one
\* operation inside the section for that id; in particular the directory is
\* never removed while a loadExtension of the id is between fetching the row
\* and the end of the view's file load.
C2_SectionExclusive ==
  \A t1, t2 \in Tasks :
    (t1 # t2 /\ InSection(t1) /\ InSection(t2)) => task[t1].id # task[t2].id

C2_WorkInsideSection ==
  \A i \in Ids :
    /\ (extDir'[i] # extDir[i] \/ extensions'[i] # extensions[i])
         => Cardinality({t \in Tasks : InSection(t) /\ task[t].id = i}) = 1
    /\ (HasDir(i) /\ extDir'[i] = "absent")
         => ~\E t \in Tasks : /\ task[t].op = "load"
                              /\ task[t].id = i
                              /\ task[t].pc \in {"entry", "loadFile"}

\* C2: both parts together, in every state and at every step of every
\* interleaving of the operations at their await points.
C2_PerIdCriticalSection == [](C2_SectionExclusive) /\ [][C2_WorkInsideSection]_vars

\* C2 witness: a loadExtension is between its row fetch and the end of the file
\* load while an uninstall of the same id waits for the lock.
C2_Witness ==
  \E t1, t2 \in Tasks :
    /\ task[t1].op = "load" /\ task[t1].pc \in {"entry", "loadFile"}
    /\ task[t2].op = "uninstall" /\ task[t2].pc = "waiting"
    /\ task[t1].id = task[t2].id

CopyFailed(t) ==
  /\ Completed(t)
  /\ task[t].op = "install"
  /\ task[t].res.at \in {"copy", "rollback"}

C4_InstallAtomic ==
  \A t \in Tasks :
    (Completed(t) /\ task[t].op = "install") =>
      /\ task[t].res = Ok => (extDir[task[t].id] = "full" /\ HasRow(task[t].id))
      /\ task[t].res.at = "insert" => (~HasDir(task[t].id) /\ ~HasRow(task[t].id))

\* The call in slot t has just completed with success.
Succeeded(t, op) == task[t].pc = "done" /\ task[t].op = op /\ task[t].res = Ok

\* The failures loadExtension raises before it reaches view.webContents.loadFile.
BeforeLoadFile ==
  {Failure("ExtensionError", "disabled"), Failure("DatabaseError", "select")}

\* What each completed call has done to the row of its uniqueId.
C19_CallsFollowStates ==
  \A t \in Tasks :
    /\ Succeeded(t, "install") => Row(t) = "enabled"
    /\ Succeeded(t, "disable") => (task[t].row0 # "none" /\ Row(t) = "disabled")
    /\ Succeeded(t, "enable") => (task[t].row0 # "none" /\ Row(t) = "enabled")
    /\ Succeeded(t, "load") => (task[t].row0 = "enabled" /\ Row(t) = "enabled")
    /\ (task[t].op = "load" /\ task[t].row0 = "disabled")
         => /\ task[t].pc \notin {"entry", "loadFile"}
            /\ task[t].pc = "done" => task[t].res \in BeforeLoadFile
    /\ (task[t].op = "load" /\ task[t].pc = "done" /\ task[t].row0 = "enabled")
         => task[t].res \in {Ok, Failure("DatabaseError", "select"),
                             Failure("FileSystemError", "entry"),
                             Failure("ExtensionError", "loadFile")}

\* The row of a uniqueId changes only along absent -> enabled,
\* enabled <-> disabled and back to absent.
C19_RowTransitions ==
  [][\A i \in Ids :
       extensions'[i] # extensions[i]
         => \/ extensions[i] = "none" /\ extensions'[i] = "enabled"
            \/ extensions[i] = "enabled" /\ extensions'[i] = "disabled"
            \/ extensions[i] = "disabled" /\ extensions'[i] = "enabled"
            \/ extensions'[i] = "none"]_vars

SameSourceSameId ==
  \A m1 \in Manifests, m2 \in Manifests :
    (m1.developer = m2.developer /\ m1.name = m2.name) => UniqueId(m1) = UniqueId(m2)

\* A successful uninstall leaves neither directory nor row of its uniqueId,
\* and a successful install leaves the whole directory and the row.
C20_UninstallClearsInstallFills ==
  /\ SameSourceSameId
  /\ \A t \in Tasks :
       /\ Succeeded(t, "uninstall") => (~HasDir(task[t].id) /\ ~HasRow(task[t].id))
       /\ Succeeded(t, "install")
            => /\ \E m \in Manifests : task[t].id = UniqueId(m)
               /\ extDir[task[t].id] = "full"
               /\ HasRow(task[t].id)

\* An install is rejected as already installed only when the directory of
\* its uniqueId is there.
C20_RejectedOnlyIfPresent ==
  [][\A t \in Tasks :
       (/\ task[t].op = "install"
        /\ task[t].pc # "done"
        /\ task'[t].pc = "done"
        /\ task'[t].res = Failure("ExtensionError", "installed"))
         => HasDir(task[t].id)]_vars

\* C20: the uniqueId depends only on (developer, name); after an install and
\* an uninstall of it nothing of the extension is left, so that an install
\* of a source with the same developer and name is not rejected as already
\* installed and, when it succeeds, installs under the same uniqueId.
C20_ReinstallAfterUninstall ==
  [](C20_UninstallClearsInstallFills) /\ C20_RejectedOnlyIfPresent

\* An install has succeeded for a uniqueId that was installed and then
\* uninstalled before.
C20_Witness ==
  \E t \in Tasks : Succeeded(t, "install") /\ task[t].id \in uninstalled

\* The call in slot t waits for or holds the global write lock.
AtWriteLock(t) ==
  \/ dbWriteLock.holder = t
  \/ \E k \in 1..Len(dbWriteLock.queue) : dbWriteLock.queue[k] = t

\* C21: at most one store-mutating transaction (the section of install,
\* uninstall, enable or disable between BEGIN and COMMIT / ROLLBACK) is in
\* progress at any time, whatever the uniqueIds; loadExtension never asks
\* for the write lock, and its read of the row can go on while another
\* operation's transaction is in progress.
C21_OneWriteTransaction ==
  /\ \A t \in Tasks, u \in Tasks :
       (task[t].pc = "tx" /\ task[u].pc = "tx") => t = u
  /\ \A t \in Tasks : task[t].pc = "tx" => dbWriteLock.holder = t
  /\ \A t \in Tasks :
       task[t].op = "load"
         => /\ ~AtWriteLock(t)
            /\ (task[t].pc = "fetch" /\ ~Settling) => ENABLED LoadFetch(t)

\* One operation is inside its transaction while an operation on another
\* uniqueId waits for the write lock.
C21_Witness ==
  \E t \in Tasks, u \in Tasks :
    /\ task[t].pc = "tx"
    /\ task[u].pc = "dbwait"
    /\ task[u].id # task[t].id

\* Whoever waits for or holds the global write lock holds the per-id lock of
\* its uniqueId, and whoever waits for a per-id lock is not at the write lock.
LockOrder ==
  \A t \in Tasks :
    /\ AtWriteLock(t) => resourceLocks[task[t].id].holder = t
    /\ task[t].pc = "waiting" => ~AtWriteLock(t)
    /\ task[t].pc \in {"dbwait", "tx"} <=> AtWriteLock(t)

\* C22: every operation takes the per-id lock before it requests the global
\* write lock and never requests a per-id lock while it holds the write
\* lock; and, every filesystem, store and view call returning, every
\* operation that was called completes, whatever operations on whatever
\* uniqueIds run with it.
C22_LockOrderNoDeadlock ==
  /\ []LockOrder
  /\ \A t \in Tasks : (task[t].pc # "idle") ~> (task[t].pc = "done")

\* One operation is inside its transaction, holding both locks, while
\* another operation on the same uniqueId waits for the per-id lock.
C22_Witness ==
  \E t \in Tasks, u \in Tasks :
    /\ task[t].pc = "tx"
    /\ task[u].pc = "waiting"
    /\ task[u].id = task[t].id

\* C23: callers of ensureRepositoryReady that arrive before the store is open
\* share one initialization: at most one initialization is in flight, every
\* caller that waits awaits that one, and open() returns a connection at
\* most once.
C23_SingleFlightInitialization ==
  /\ Len(initializations) <= 1
  /\ dbInitPromise <=> Len(initializations) = 1
  /\ (\E t \in Tasks : task[t].pc = "init") => Len(initializations) = 1
  /\ opens <= 1
  /\ db <=> opens = 1

\* Two callers await the one initialization, which has opened the store.
C23_Witness ==
  /\ \A t \in Tasks : task[t].pc = "init"
  /\ initializations = <<"schema">>
  /\ opens = 1

\* C24: an install that finds the destination directory of its uniqueId
\* fails with "extension already installed" (or with the failure of the
\* access check itself) and changes neither a directory nor a row; an install
\* past the check works on a directory no other install has made, and an
\* install succeeds only for a uniqueId that has no row, so that of two
\* installs of one (developer, name) the second cannot succeed while the
\* first one's directory and row are there.
C24_InstallRejectedIfDirectoryExists ==
  /\ [](\A t \in Tasks : (task[t].op = "install" /\ task[t].pc = "mkdir") => ~HasDir(task[t].id))
  /\ [][\A t \in Tasks :
          /\ (task[t].pc = "access" /\ HasDir(task[t].id) /\ task'[t].pc # "access")
               => /\ task'[t].pc = "done"
                  /\ task'[t].res \in {Failure("ExtensionError", "installed"),
                                       Failure("FileSystemError", "access")}
                  /\ extDir' = extDir
                  /\ extensions' = extensions
          /\ (task[t].op = "install" /\ task[t].pc # "done"
               /\ task'[t].pc = "done" /\ task'[t].res = Ok)
               => /\ ~HasRow(task[t].id)
                  /\ extDir[task[t].id] = "full"
                  /\ extDir' = extDir
                  /\ \A i \in Ids \ {task[t].id} : extensions'[i] = extensions[i]]_vars

\* An install is rejected as already installed while the directory and the
\* row of an earlier install of the same uniqueId are in place.
C24_Witness ==
  \E t \in Tasks :
    /\ task[t].pc = "done"
    /\ task[t].op = "install"
    /\ task[t].res = Failure("ExtensionError", "installed")
    /\ extDir[task[t].id] = "full"
    /\ extensions[task[t].id] = "enabled"

\* C25: an uninstall whose removal of the extension directory fails fails
\* with the filesystem failure, without requesting the delete transaction and
\* with every row as it was; an uninstall is at its delete transaction only
\* after the directory is gone.
C25_FailedRemovalKeepsRow ==
  /\ [](\A t \in Tasks :
          /\ (task[t].pc = "done" /\ task[t].op = "uninstall" /\ task[t].res.at = "rm")
               => /\ task[t].res.kind = "FileSystemError"
                  /\ Row(t) = task[t].row0
          /\ (task[t].op = "uninstall" /\ AtWriteLock(t)) => ~HasDir(task[t].id))
  /\ [][\A t \in Tasks :
          (task[t].pc = "rm" /\ task'[t].pc = "done")
            => /\ task'[t].res = Failure("FileSystemError", "rm")
               /\ extensions' = extensions
               /\ dbWriteLock' = dbWriteLock]_vars

\* An uninstall has failed at the removal of a directory that is still there,
\* and the row of its uniqueId is in the store.
C25_Witness ==
  \E t \in Tasks :
    /\ task[t].pc = "done"
    /\ task[t].op = "uninstall"
    /\ task[t].res = Failure("FileSystemError", "rm")
    /\ HasDir(task[t].id)
    /\ HasRow(task[t].id)

\* C37: whenever ensureRepositoryReady returns without failure (at once
\* because this.db is set, or resumed by a fulfilled initialization), the
\* store is open and the extensions table has been created.
C37_ReadyMeansSchemaCreated ==
  [][\A t \in Tasks :
       (\/ EnsureRepositoryReady(t) /\ db
        \/ EnsureSettled(t) /\ task[t].pc = "ensured")
         => (db' /\ schema')]_vars

CriticalKinds == {"CriticalFileSystemError", "CriticalDatabaseError"}

OrdinaryKinds == {"FileSystemError", "DatabaseError", "ExtensionError"}

\* C34: a completed install, uninstall, enable or disable reports a critical
\* failure exactly when the rollback it attempted after its primary failure
\* failed (critical filesystem after the failed copy, critical database after
\* a failed transaction); when the rollback succeeded the reported failure is
\* of the ordinary kind.
C34_CriticalIffRollbackFailed ==
  \A t \in Tasks :
    (task[t].pc = "done" /\ task[t].op \in {"install", "uninstall", "enable", "disable"})
      => /\ task[t].res.kind \in CriticalKinds <=> task[t].rollback = "failed"
         /\ task[t].res.kind = "CriticalFileSystemError"
              => (task[t].op = "install" /\ task[t].res.at = "rollback")
         /\ task[t].res.kind = "CriticalDatabaseError"
              => task[t].res.at \in {"insert", "delete", "update"}
         /\ task[t].rollback = "ok" => task[t].res.kind \in OrdinaryKinds

C34_Witness ==
  \E t \in Tasks :
    /\ task[t].pc = "done"
    /\ task[t].op \in {"enable", "disable"}
    /\ task[t].rollback = "failed"
    /\ task[t].res = Failure("CriticalDatabaseError", "update")

\* C40: uninstallExtension of an id that has neither a directory nor a row
\* leaves the directory tree and the store as they are at both of its steps,
\* the transaction can only succeed or fail with a store failure, and no
\* uninstall ever reports "extension not found" (enable and disable do).
C40_UninstallOfUnknownIdSucceeds ==
  /\ [](\A t \in Tasks :
          (task[t].pc = "done" /\ task[t].op = "uninstall")
            => task[t].res.kind # "ExtensionError")
  /\ [][\A t \in Tasks :
          /\ (UninstallRemove(t) /\ Dir(t) = "absent" /\ Row(t) = "none")
               => /\ extDir' = extDir
                  /\ extensions' = extensions
                  /\ task'[t].pc \in {"tx", "dbwait"}
                       \/ task'[t].res = Failure("FileSystemError", "rm")
          /\ (UninstallDelete(t) /\ Dir(t) = "absent" /\ Row(t) = "none")
               => /\ extDir' = extDir
                  /\ extensions' = extensions
                  /\ task'[t].pc = "done"
                  /\ task'[t].res.kind
                       \in {"ok", "Error", "DatabaseError", "CriticalDatabaseError"}]_vars

\* The first call ever made is an uninstall, and it has succeeded.
C40_Witness ==
  \E t \in Tasks :
    /\ calls = 1
    /\ Succeeded(t, "uninstall")
    /\ ~HasDir(task[t].id)
    /\ ~HasRow(task[t].id)
    /\ \A i \in Ids : extDir[i] = "absent" /\ extensions[i] = "none"

\* ------------------------------------------------------------------------
\* Command Registry properties (checked under SpecCmd)
\* ------------------------------------------------------------------------

Invoked(at) == {j \in 1..Len(trace) : trace[j].at = at}

AllPass(list) == \A j \in 1..Len(list) : list[j].kind = "pass"

\* The trace of an execute that invoked every pre-middleware in registration
\* order, then the handler once, then every post-middleware in registration
\* order.
InOrder ==
  [j \in 1..(Len(preMiddleware) + 1 + Len(postMiddleware)) |->
     IF j <= Len(preMiddleware)
       THEN [at |-> "pre", tag |-> j, kind |-> "pass"]
     ELSE IF j = Len(preMiddleware) + 1
       THEN [at |-> "handler", tag |-> 0, kind |-> "returns"]
     ELSE [at |-> "post", tag |-> j - Len(preMiddleware) - 1, kind |-> "pass"]]

\* C5: when every registered pre- and post-middleware appends its tag and
\* calls next, an execute of a registered command that returns has produced
\* exactly the trace pre-middlewares in registration order, the handler once,
\* post-middlewares in registration order ([A, B, handler, C, D] for pre
\* [A, B] and post [C, D]).
C5_MiddlewareOrder ==
  (phase = "done" /\ outcome.kind = "returned"
     /\ AllPass(preMiddleware) /\ AllPass(postMiddleware))
    => trace = InOrder

C5_Witness ==
  /\ phase = "done"
  /\ outcome.kind = "returned"
  /\ AllPass(preMiddleware) /\ Len(preMiddleware) = 2
  /\ AllPass(postMiddleware) /\ Len(postMiddleware) = 2
  /\ Len(trace) = 5

\* C6: if any pre-middleware changed the context's command field, execute
\* has failed with the 'cannot modify the command name' middleware failure
\* and neither the handler nor a post-middleware was invoked.
C6_RenameAlwaysRejected ==
  (phase = "done" /\ \E j \in Invoked("pre") : trace[j].kind = "rename")
    => /\ outcome = Raised(CannotModify)
       /\ Invoked("handler") = {}
       /\ Invoked("post") = {}

C8_PostFailureIsolated ==
  (phase = "done"
     /\ \E j \in Invoked("post") : trace[j].kind \in {"throwBefore", "setResultThrow"})
    => outcome = Returned("returned by the handler")

\* C9: no post-middleware is invoked in an execute that raised (its pre-chain
\* or its handler failed); a post-middleware is invoked only after the handler
\* was invoked and returned.
C9_PostOnlyAfterSuccess ==
  \A j \in Invoked("post") :
    /\ outcome.kind # "raised"
    /\ commandExecuted
    /\ \E h \in Invoked("handler") : h < j /\ trace[h].kind = "returns"

C9_Witness ==
  /\ phase = "done"
  /\ outcome.kind = "raised"
  /\ Len(postMiddleware) >= 1
  /\ \E h \in Invoked("handler") : trace[h].kind = "throws"

\* The failure the invoked handler raised itself.
HandlerFailure ==
  IF \E h \in Invoked("handler") : trace[h].kind = "throws"
    THEN HandlerThrew
    ELSE HandlerThrewMiddlewareError

\* C29: an execute of a registered command that fails before the handler is
\* invoked (in a pre-middleware or at the command-name check) fails with a
\* MiddlewareError, and one whose handler raised fails with the
\* ExecutionError that wraps what the handler raised, whatever that is.
C29_FailureKindFollowsOrigin ==
  (phase = "done" /\ outcome.kind = "raised" /\ command \in commands)
    => IF Invoked("handler") = {}
         THEN IsMiddlewareError(outcome.error)
         ELSE outcome.error = <<"ExecutionError: Failed to execute the command">> \o HandlerFailure

\* The content of the object context.args refers to.
ContextArgs == IF context.args = "args" THEN cmdArgs ELSE replacement

\* C30: the handler is called with what context.args holds once the
\* pre-chain has run, whether a pre-middleware changed the args in place or
\* assigned a new value to context.args.
C30_HandlerReceivesContextArgs ==
  handlerArgs # "none" => handlerArgs = ContextArgs

\* ------------------------------------------------------------------------
\* Service Registry properties (checked under SpecSvc)
\* ------------------------------------------------------------------------

\* C10, state part.  Since a name's entry was last deleted from the directory: at most one
\* instance was constructed per (name, argsKey), the start calls that
\* returned all returned that instance, and the directory holds at most one
\* entry per (name, argsKey), for that instance.
C10_OneInstancePerKey ==
  \A n \in SvcNames, k \in ArgKeys :
    /\ Cardinality(constructed[n][k]) <= 1
    /\ returned[n][k] \subseteq constructed[n][k]
    /\ Cardinality({j \in 1..Len(services[n]) : services[n][j].key = k}) <= 1
    /\ Lookup(services[n], k) \in constructed[n][k] \cup {NoInstance}

\* C10, step part.  A start call for a (name, argsKey) that has an instance
\* stored returns that
\* instance at once and leaves the directory and the number of constructed
\* instances as they were.
C10_SecondStartAddsNothing ==
  \A t \in SvcTasks :
    (/\ svcCall[t].pc = "idle"
     /\ svcCall'[t].op = "start"
     /\ svcCall'[t].name \in SvcNames
     /\ Lookup(services[svcCall'[t].name], svcCall'[t].key) # NoInstance)
      => /\ services' = services
         /\ created' = created
         /\ svcCall'[t].res =
              SvcValue("instance", Lookup(services[svcCall'[t].name], svcCall'[t].key))

\* C10: calling start twice with the same name and identical arguments
\* (sequentially, or the second call while the first awaits the start hook)
\* returns the same instance both times, constructs the service once, never
\* leaves more than one instance under a (name, argsKey) pair, and the second
\* call does not increase the number of running services.
C10_IdempotentStart == [](C10_OneInstancePerKey) /\ [][C10_SecondStartAddsNothing]_vars

\* C10 witness: the second start has returned the instance while the first
\* start of the same (name, argsKey) is still awaiting the start hook.
C10_Witness ==
  \E t1, t2 \in SvcTasks :
    /\ svcCall[t1].op = "start" /\ svcCall[t1].pc = "starting"
    /\ svcCall[t2].op = "start" /\ svcCall[t2].pc = "done"
    /\ svcCall[t2].name = svcCall[t1].name /\ svcCall[t2].key = svcCall[t1].key
    /\ svcCall[t2].res = SvcValue("instance", svcCall[t1].inst)

\* ------------------------------------------------------------------------
\* Service Registry properties of calls made one after another (checked
\* under SpecSvcSeq)
\* ------------------------------------------------------------------------

\* The instances and the keys of the entries of a Map.
InstancesOf(map) == {map[j].inst : j \in 1..Len(map)}

KeysOf(map) == {map[j].key : j \in 1..Len(map)}

\* The instances the directory holds.
Stored == UNION {InstancesOf(services[n]) : n \in SvcNames}

\* C11: every operation that takes a name, given an invalid name, has failed
\* with an invalid-argument failure whose cause is a validation failure, and
\* has left the factories and the directory as they were (nothing is
\* registered and nothing stored under the invalid name).
C11_InvalidNameRejected ==
  \A t \in SvcTasks :
    (svcCall[t].pc = "done" /\ svcCall[t].name \in InvalidNames)
      => /\ svcCall[t].res = SvcFailure("InvalidArgumentError", "ValidationError")
         /\ svcCall[t].name \notin factories

\* C12: every instance that has left the directory has had its stop hook
\* invoked.
C12_StoppedBeforeRemoved ==
  \A id \in 1..created : id \in Stored \/ id \in stopHooked

\* C13: unregister of a name with a registered factory has returned true,
\* and then the name has no factory and no instances in the directory, and
\* the stop hook of every instance that was running under it was invoked.
C13_UnregisterStopsAll ==
  \A t \in SvcTasks :
    (/\ svcCall[t].pc = "done"
     /\ svcCall[t].op = "unregister"
     /\ svcCall[t].name \in SvcNames
     /\ svcCall[t].res # SvcValue("false", NoInstance))
      => /\ svcCall[t].res = SvcValue("true", NoInstance)
         /\ svcCall[t].name \notin factories
         /\ services[svcCall[t].name] = <<>>
         /\ InstancesOf(svcCall[t].had) \subseteq stopHooked

StartCalls(inst) == Cardinality({j \in 1..Len(startHooked) : startHooked[j] = inst})

C39_RestartStopsEveryInstanceOfName ==
  /\ [](\A t \in SvcTasks :
          LET c == svcCall[t]
          IN (c.pc = "done" /\ c.op = "restart" /\ c.key \in KeysOf(c.had))
               => /\ InstancesOf(c.had) \subseteq stopHooked
                  /\ InstancesOf(c.had) \cap InstancesOf(services[c.name]) = {}
                  /\ Len(services[c.name]) <= 1
                  /\ c.res.kind = "instance"
                       => /\ services[c.name] = <<[key |-> c.key, inst |-> c.res.inst]>>
                          /\ c.res.inst > c.base)
  /\ [][\A t \in SvcTasks, n \in SvcNames :
          (\/ svcCall[t].op = "restart" /\ svcCall[t].name = n
           \/ svcCall'[t].op = "restart" /\ svcCall'[t].name = n)
            => \A m \in SvcNames \ {n} :
                 /\ services'[m] = services[m]
                 /\ InstancesOf(services[m]) \cap (stopHooked' \ stopHooked) = {}]_vars

\* C39 witness: the name had instances under two argument keys, and restart
\* has returned the fresh instance.
C39_Witness ==
  \E t \in SvcTasks :
    /\ svcCall[t].pc = "done"
    /\ svcCall[t].op = "restart"
    /\ svcCall[t].res.kind = "instance"
    /\ svcCall[t].key \in KeysOf(svcCall[t].had)
    /\ Len(svcCall[t].had) = 2

\* ------------------------------------------------------------------------
\* Tab Manager properties (checked under SpecTab)
\* ------------------------------------------------------------------------

\* The view of the tab at 1-based position i is visible.
ViewVisible(i) == tabs[i].hasView /\ tabs[i].obj \in visible

\* C16: at most one tab is active, the active tab's view is visible, and the
\* view of every other tab in the list is hidden.
C16_OnlyActiveVisible ==
  /\ activeTab # NoTab => \E i \in 1..Len(tabs) : tabs[i].obj = activeTab
  /\ \A i \in 1..Len(tabs) : ViewVisible(i) <=> tabs[i].obj = activeTab

\* The 0-based position of the Tab object `obj` in the list (-1: not there).
PosOf(list, obj) ==
  IF \E i \in 1..Len(list) : list[i].obj = obj
  THEN (CHOOSE i \in 1..Len(list) : list[i].obj = obj) - 1
  ELSE -1

\* The Tab objects of the list, in order.
Objs(list) == [i \in 1..Len(list) |-> list[i].obj]

\* What the claim requires of a closeTab(tabId) that finds its tab.
ClosePolicy(tabId) ==
  LET i == PosOf(tabs, activeTab)
      n == Len(tabs')
  IN /\ IF activeTab # NoTab /\ IdOf(tabs, activeTab) = tabId
        THEN /\ Objs(tabs') = Objs(RemoveAt(tabs, i + 1))
             /\ n = 0 => activeTab' = NoTab
             /\ (n > 0 /\ i >= n) => activeTab' = tabs'[n].obj
             /\ (n > 0 /\ i < n) => /\ activeTab' = tabs'[i + 1].obj
                                    /\ activeTab' = tabs[i + 2].obj
        ELSE activeTab' = activeTab
     /\ lastTab'.kind = "ok"
     /\ lastTab'.idx = PosOf(tabs', activeTab')

\* C17: closing the active tab at index i leaves no active tab if the list
\* is then empty, else makes the new last tab active if i is past the end,
\* else the tab now at index i (the one that was at i + 1); closing another
\* tab leaves the active tab as it is; the index returned is the active
\* tab's position in the list after the removal (-1 if none).
C17_ClosePromotesNeighbour ==
  [][\A tabId \in TabIds :
       (CloseTab(tabId) /\ FindIndex(tabs, tabId) # -1) => ClosePolicy(tabId)]_vars

\* C18: reorderTab with an index below 0 or not below the number of tabs
\* fails with an invalid-argument failure and leaves the tab list and the
\* active tab as they were.
C18_ReorderOutOfBoundsRejected ==
  [][\A pair \in ReorderInputs :
       (/\ ReorderTab(pair[1], pair[2])
        /\ (pair[1] < 0 \/ pair[2] < 0 \/ pair[1] >= Len(tabs) \/ pair[2] >= Len(tabs)))
         => /\ lastTab'.op = "reorderTab"
            /\ lastTab'.kind = "InvalidArgumentError"
            /\ tabs' = tabs
            /\ activeTab' = activeTab]_vars

\* A reorderTab on a list of two tabs, one of them active, has failed with
\* the invalid-argument failure.
C18_Witness ==
  /\ lastTab.op = "reorderTab"
  /\ lastTab.kind = "InvalidArgumentError"
  /\ Len(tabs) = 2
  /\ activeTab # NoTab

\* C26: when the load of the extension fails, createNewTab fails with the tab
\* failure, appends no tab, leaves the active tab as it was, and the view it
\* had added to the window is no longer a child view of the window.
C26_FailedLoadDetachesView ==
  [][\A c \in creating :
       (c \notin creating' /\ lastTab' = TabThrew("createNewTab", "TabError"))
         => /\ tabs' = tabs
            /\ activeTab' = activeTab
            /\ c.obj \notin attached']_vars

\* C31: the tabs of the tab list have pairwise distinct ids.
C31_TabIdsDistinct ==
  \A i \in 1..Len(tabs), j \in 1..Len(tabs) : i # j => tabs[i].id # tabs[j].id

\* The tabs of the list that do not belong to the extension, in list order.
Others(list, ext) == SelectSeq(list, LAMBDA tab : tab.ext # ext)

\* C32: closeExtensionById of a valid extension id removes from the tab list
\* exactly the tabs of that extension, keeps the other tabs in their order,
\* and returns the index the active tab has after the closes (-1 only if no
\* tab is active then), whether or not a tab of the extension is open.
C32_CloseExtensionClosesItsTabs ==
  [][\A ext \in Ids :
       CloseExtensionById(ext)
         => /\ Objs(tabs') = Objs(Others(tabs, ext))
            /\ lastTab'.kind = "ok"
            /\ lastTab'.idx = PosOf(tabs', activeTab')]_vars

\* C33: a reorderTab with both indices inside the list puts the tab that was
\* at fromIndex at toIndex, keeps the other tabs in their order, leaves the
\* active tab, the child views and their visibility as they were, and returns
\* the index the active tab has in the new order.
C33_ReorderMovesOneTab ==
  [][\A pair \in ReorderInputs :
       (/\ ReorderTab(pair[1], pair[2])
        /\ pair[1] >= 0 /\ pair[1] < Len(tabs)
        /\ pair[2] >= 0 /\ pair[2] < Len(tabs))
         => /\ Len(tabs') = Len(tabs)
            /\ tabs'[pair[2] + 1] = tabs[pair[1] + 1]
            /\ RemoveAt(tabs', pair[2] + 1) = RemoveAt(tabs, pair[1] + 1)
            /\ activeTab' = activeTab
            /\ visible' = visible
            /\ attached' = attached
            /\ lastTab'.kind = "ok"
            /\ lastTab'.idx = PosOf(tabs', activeTab')]_vars

\* ------------------------------------------------------------------------
\* Event Bus properties (checked under SpecBus)
\* ------------------------------------------------------------------------

\* The functions emit has invoked at the given place, in the order of invocation.
InvokedAt(at) ==
  LET part == SelectSeq(busTrace, LAMBDA r : r.at = at)
  IN [j \in 1..Len(part) |-> part[j].fn]

\* The data after the first n pre-middlewares, those that threw left out.
RECURSIVE Transformed(_)
Transformed(n) ==
  IF n = 0 THEN EmitData
  ELSE IF busPreMiddleware[n].kind = "object" THEN Assign(Transformed(n - 1), busPreMiddleware[n])
  ELSE Transformed(n - 1)

\* A middleware that emit has invoked threw.
MiddlewareFailed ==
  \E j \in 1..Len(busTrace) :
    \/ busTrace[j].at = "pre" /\ busPreMiddleware[busTrace[j].fn].kind = "throws"
    \/ busTrace[j].at = "post" /\ busPostMiddleware[busTrace[j].fn].kind = "throws"

\* C27: an emit during which a pre- or post-middleware threw has resolved
\* when it completes, having invoked every pre-middleware, every handler of
\* the event with the data as the pre-middlewares that did not throw left it,
\* and every post-middleware.
C27_MiddlewareFailureSwallowed ==
  (emit.pc = "done" /\ MiddlewareFailed)
    => /\ emit.res = "resolved"
       /\ InvokedAt("pre") = [j \in 1..Len(busPreMiddleware) |-> j]
       /\ InvokedAt("handler") = [j \in 1..Len(events[emit.event]) |-> events[emit.event][j].fn]
       /\ InvokedAt("post") = [j \in 1..Len(busPostMiddleware) |-> j]
       /\ \A j \in 1..Len(busTrace) :
            busTrace[j].at = "handler" => busTrace[j].data = Transformed(Len(busPreMiddleware))

\* The places of the invocations emit has made are in the order pre-middlewares,
\* handlers, post-middlewares.
Phased ==
  \A j \in 1..Len(busTrace), k \in 1..Len(busTrace) :
    j < k => <<busTrace[j].at, busTrace[k].at>> \notin
               {<<"handler", "pre">>, <<"post", "pre">>, <<"post", "handler">>}

\* C28: a completed emit has invoked every handler of the event once, in
\* registration order, after every pre-middleware and before any
\* post-middleware, whether handlers fail or not.
C28_EveryHandlerOnceInOrder ==
  emit.pc = "done"
    => /\ InvokedAt("handler") = [j \in 1..Len(events[emit.event]) |-> events[emit.event][j].fn]
       /\ InvokedAt("pre") = [j \in 1..Len(busPreMiddleware) |-> j]
       /\ Phased


\* ------------------------------------------------------------------------
\* BaseError properties (checked under SpecErr and SpecErrFair)
\* ------------------------------------------------------------------------

\* The k-th error after e along the cause links the renderings follow.
RECURSIVE Nth(_, _)
Nth(e, k) ==
  IF k = 0 \/ e = NoError THEN e ELSE Nth(CauseOf(e), k - 1)

\* The cause links from e form a cycle: they never reach `undefined`.
Cyclic(e) == Nth(e, Len(errors)) # NoError

\* The pieces of the string between its separators.
RECURSIVE Split(_, _, _)
Split(str, done, piece) ==
  IF str = <<>> THEN Append(done, piece)
  ELSE IF Head(str) = Arrow THEN Split(Tail(str), Append(done, piece), <<>>)
  ELSE Split(Tail(str), done, Append(piece, Head(str)))

Segments(str) == Split(str, <<>>, <<>>)

\* C35: both renderings terminate for every chain, and for an error whose
\* cause links form a cycle each ends with the circular-reference sentinel.
C35_RenderingTerminates ==
  /\ [](/\ (chain.this # NoError /\ Cyclic(chain.this))
             => /\ Len(chain.result) >= 2
                /\ SubSeq(chain.result, Len(chain.result) - 1, Len(chain.result))
                     = <<Arrow, Sentinel>>
        /\ (chainArray.this # NoError /\ Cyclic(chainArray.this))
             => /\ chainArray.messages # <<>>
                /\ chainArray.messages[Len(chainArray.messages)] = <<Sentinel>>)
  /\ Rendering ~> ~Rendering

\* C35 witness: both renderings have returned for an error on a cycle of
\* three errors.
C35_Witness ==
  /\ chain.this # NoError
  /\ chainArray.this = chain.this
  /\ Cyclic(chain.this)
  /\ Nth(chain.this, 3) = chain.this
  /\ Nth(chain.this, 1) # chain.this
  /\ Nth(chain.this, 2) # chain.this

\* C36: for every error, the entries of the list rendering are the segments
\* of the string rendering, in the same order.
C36_ListMatchesString ==
  (chain.this # NoError /\ chainArray.this = chain.this)
    => Segments(chain.result) = chainArray.messages

================================================================
